---------------------------- MODULE Spec2Model ----------------------------
(***************************************************************************)
(* qbjc: the code generator (src/src/codegen/code-generator.ts) lowering   *)
(* an analyzed QBasic AST to a flat list of labels and runnable statements,*)
(* and the executor contract that runs that list.                          *)
(*                                                                         *)
(* The AST is handed to the visitor one statement at a time: every visit   *)
(* action draws its node from a bounded set, so the behaviours enumerate   *)
(* every module up to the bounds.  A construct with nested statements (IF, *)
(* DO/LOOP, a proc, the module) keeps a frame on `stack` (the visitor's    *)
(* call stack) while its nested statements are visited; the action that    *)
(* ends the block runs the rest of the handler.                            *)
(***************************************************************************)
EXTENDS Integers, Sequences, FiniteSets, TLC

VARIABLES
    nextGeneratedLabelIdx,  \* CodeGenerator.nextGeneratedLabelIdx
    openForStmtStates,      \* CodeGenerator.openForStmtStates
    openLoopStmtStates,     \* CodeGenerator.openLoopStmtStates
    stack,                  \* visitor call stack: one frame per open visitStmts()
    compiled,               \* finished statement lists: <<module.stmts, proc 1, ...>>
    phase,                  \* "gen" | "failed" | "done" | "exec" | "halted"
    error,                  \* message of the CodegenError thrown, "" if none
    ast,                    \* the statements visited so far, in source order
    budget,                 \* the statements a module may hold, the steps a run may take
    pc,                     \* executor: index into the module's statement list
    localVars,              \* executor: ctx.localVars
    tempVars,               \* executor: ctx.tempVars
    trace,                  \* executor: the statements run so far
    printed,                \* runtime: the strings handed to platform.print, in order
    pendingCall,            \* runtime: the call under way or last made, with its outcome
    module,                 \* analyzer: the Module with the symbols and types attached
    currentProc,            \* analyzer: SemanticAnalyzer.currentProc (0: null)
    analysis,               \* analyzer: where the walk stands, and the error thrown
    isRunning,              \* playground: qbjcManager.isRunning
    rendered,               \* playground: the isRunning RunFab's last render read
    runs,                   \* playground: the runs started and not yet ended
    calls                   \* playground: the calls RunFab has made to qbjcManager

vars == <<nextGeneratedLabelIdx, openForStmtStates, openLoopStmtStates, stack,
          compiled, phase, error, ast, budget, pc, localVars, tempVars, trace,
          printed, pendingCall, module, currentProc, analysis,
          isRunning, rendered, runs, calls>>

genVars == <<nextGeneratedLabelIdx, openForStmtStates, openLoopStmtStates, stack,
             compiled, phase, error, ast>>

playgroundVars == <<isRunning, rendered, runs, calls>>

\* The executor's variables; with them, the playground's, which no step of the
\* compiler, the executor or the runtime library writes.
execVars == <<budget, pc, localVars, tempVars, trace, playgroundVars>>

runtimeVars == <<printed, pendingCall>>

analyzerVars == <<module, currentProc, analysis>>

-----------------------------------------------------------------------------
(* Bounds of the model. *)

\* Statements in one module (its procs included).
MaxStmts == 3
\* Nesting depth of IF arms and DO bodies.
MaxDepth == 3
\* Arms (IF + ELSEIF) of one IF statement.
MaxArms == 2
\* FnProcs of one module.
MaxProcs == 1
\* Modules of FOR loops that are compiled and then executed: their statements,
\* and the statements the executor may run.
MaxForStmts == 4
MaxForSteps == 90
\* Modules of IF statements that are compiled and then executed: their
\* statements, the arms of one IF, and the statements the executor may run.
MaxIfStmts == 3
MaxIfArms == 3
MaxIfSteps == 12
\* Modules of DO loops that are compiled and then executed: their statements,
\* and the statements the executor may run.
MaxLoopStmts == 3
MaxLoopSteps == 16
\* Runtime.print: the arguments of a call, the calls of a run.
MaxPrintArgs == 3
MaxPrinted == 1
\* Runtime.input: the characters of a line, the lines read, the values asked for.
MaxLineLen == 3
MaxInputLines == 2
MaxInputTypes == 2
\* Built-in functions: the arguments of a lookup, the dimensions of an array.
MaxArgs == 3
MaxDims == 2
\* coerceNumericTypes: the types of a call.
MaxCoerced == 3
\* Statements of one analyzed module (its procs included).
MaxAnalyzedStmts == 2
\* PRINT statements of one module analyzed for its binary operators.
MaxBinaryOpStmts == 1
\* Statements of a module of nested blocks.
MaxBlockStmts == 4
\* Statements of a module of FOR loops run to their end, and statements run.
MaxFairStmts == 4
MaxFairSteps == 24
MaxNameStmts == 3
MaxExprStmts == 2
MaxClicks == 6

Last(s) == s[Len(s)]
Front(s) == SubSeq(s, 1, Len(s) - 1)

-----------------------------------------------------------------------------
(* JavaScript values and the expression code the generator emits. *)

Num(n) == [t |-> "number", v |-> n]
\* The numbers that are no integers: NaN, the infinities (sign 1 or -1) and
\* the quotient p / q of two integers that q does not divide.
NaN == [t |-> "NaN"]
isNaN(x) == x.t = "NaN"
\* typeof x === 'number'.
isNumber(x) == x.t \in {"number", "NaN"}
Infinity(sign) == [t |-> "number", v |-> sign, is |-> "Infinity"]
Fraction(p, q) == [t |-> "number", v |-> p, over |-> q]
isInteger(x) == x.t = "number" /\ DOMAIN x = {"t", "v"}
isInfinity(x) == x.t = "number" /\ "is" \in DOMAIN x
isFraction(x) == x.t = "number" /\ "over" \in DOMAIN x
Bool(b) == [t |-> "boolean", v |-> b]
Undefined == [t |-> "undefined", v |-> 0]

\* const x = ...: the one element of a set, computed once.
Only(S) == CHOOSE x \in S : TRUE

\* A JavaScript object used as a dictionary, and its operations.
NoVars == [k \in {} |-> Undefined]
lookup(d, k) == IF k \in DOMAIN d THEN d[k] ELSE Undefined
store(d, k, x) == [n \in DOMAIN d \cup {k} |-> IF n = k THEN x ELSE d[n]]
delete(d, k) == [n \in DOMAIN d \ {k} |-> d[n]]

\* ToBoolean of a JavaScript value.
truthy(x) ==
    CASE x.t = "boolean" -> x.v
      [] x.t = "number" -> x.v # 0
      [] OTHER -> FALSE

\* AST expressions.
LiteralExpr(value) == [type |-> "Literal", value |-> value]
VarRefExpr(name) == [type |-> "VarRef", name |-> name]
NoExpr == [type |-> "none"]

\* visitLiteralExpr: the literal's text.
visitLiteralExpr(node) == [js |-> "lit", value |-> node.value]

\* visitVarRefExpr: ctx.localVars['<name>'].
visitVarRefExpr(node) == [js |-> "localVars", name |-> node.name]

\* generateTempVarRef: ctx.tempVars['<label>'].
generateTempVarRef(label) == [js |-> "tempVars", name |-> label]

\* Emitted expressions: (l o r), (!x), (-x), a literal, a constant of the
\* statement, f(args).
JsBin(o, l, r) == [js |-> "bin", o |-> o, l |-> l, r |-> r]
JsNot(x) == [js |-> "not", x |-> x]
JsNeg(x) == [js |-> "neg", x |-> x]
JsLit(n) == [js |-> "lit", value |-> n]
JsConst(name) == [js |-> "const", name |-> name]
JsCall(fn, args) == [js |-> "call", fn |-> fn, args |-> args]

\* OP_MAP of visitBinaryOpExpr.
OP_MAP(op) ==
    CASE op = "add" -> "+"
      [] op = "sub" -> "-"
      [] op = "mul" -> "*"
      [] op = "div" -> "/"
      [] op = "mod" -> "%"
      [] op = "and" -> "&&"
      [] op = "or" -> "||"
      [] op = "eq" -> "==="
      [] op = "ne" -> "!="
      [] op = "gt" -> ">"
      [] op = "gte" -> ">="
      [] op = "lt" -> "<"
      [] op = "lte" -> "<="

RECURSIVE accept(_)

\* visitBinaryOpExpr
visitBinaryOpExpr(node) ==
    CASE node.op = "exp" ->
            JsCall("Math.pow", <<accept(node.leftExpr), accept(node.rightExpr)>>)
      [] node.op = "intdiv" ->
            JsCall("Math.floor",
                   <<JsBin("/", accept(node.leftExpr), accept(node.rightExpr))>>)
      [] OTHER ->
            JsBin(OP_MAP(node.op), accept(node.leftExpr), accept(node.rightExpr))

\* visitUnaryOpExpr, for the operators its OP_MAP knows (NEG and NOT).
visitUnaryOpExpr(node) ==
    CASE node.op = "neg" -> JsNeg(accept(node.rightExpr))
      [] node.op = "not" -> JsNot(accept(node.rightExpr))

\* AstVisitor.accept on an expression node.
accept(node) ==
    CASE node.type = "Literal" -> visitLiteralExpr(node)
      [] node.type = "VarRef" -> visitVarRefExpr(node)
      [] node.type = "BinaryOp" -> visitBinaryOpExpr(node)
      [] node.type = "UnaryOp" -> visitUnaryOpExpr(node)

\* A test that takes every argument of PRINT for a separator.
isSeparator_always(arg) == TRUE

\* typeof arg === 'string': a separator of PRINT.
isSeparator(arg) == "t" \in DOMAIN arg

\* SourceNode.toString() of an emitted expression.
toString(code) ==
    CASE code.js = "lit" -> ToString(code.value)
      [] code.js = "localVars" -> "ctx.localVars['" \o code.name \o "']"
      [] code.js = "tempVars" -> "ctx.tempVars['" \o code.name \o "']"

-----------------------------------------------------------------------------
(* Emitted statements. *)

\* generateLabelStmt: a label statement of the compiled list.
generateLabelStmt(label) == [type |-> "label", label |-> label]

\* generateGotoCode: return { type: 'goto', destLabel }.
generateGotoCode(destLabel) ==
    [op |-> "return", directive |-> [type |-> "goto", destLabel |-> destLabel]]

\* createStmtSourceNode: a runnable statement carrying its source location.
createStmtSourceNode(node, runCode) ==
    [type |-> "run", loc |-> node.loc, run |-> runCode]

\* The stem generateLabel() returns for counter value idx.
generateLabel(idx) == "$" \o ToString(idx)


-----------------------------------------------------------------------------
(* The AST handed to the visitor. *)

LabelStmt(label) == [type |-> "LabelStmt", label |-> label]
GotoStmt(destLabel) == [type |-> "GotoStmt", destLabel |-> destLabel]
GosubStmt(destLabel) == [type |-> "GosubStmt", destLabel |-> destLabel]
\* destLabel "" stands for a RETURN without a label.
ReturnStmt(destLabel) == [type |-> "ReturnStmt", destLabel |-> destLabel]
EndStmt == [type |-> "EndStmt"]
AssignStmt(targetExpr, valueExpr) ==
    [type |-> "AssignStmt", targetExpr |-> targetExpr, valueExpr |-> valueExpr]
\* ifBranches[k].condExpr is condExprs[k]; the arms' statements follow one by one.
IfStmt(condExprs, hasElse) ==
    [type |-> "IfStmt", condExprs |-> condExprs, hasElse |-> hasElse]
CondLoopStmt(structure, isCondNegated, condExpr) ==
    [type |-> "CondLoopStmt", structure |-> structure,
     isCondNegated |-> isCondNegated, condExpr |-> condExpr]
UncondLoopStmt == [type |-> "UncondLoopStmt"]
ExitLoopStmt == [type |-> "ExitLoopStmt"]
ForStmt(counterExpr, startExpr, endExpr, stepExpr) ==
    [type |-> "ForStmt", counterExpr |-> counterExpr, startExpr |-> startExpr,
     endExpr |-> endExpr, stepExpr |-> stepExpr]
NextStmt(counterExprs) == [type |-> "NextStmt", counterExprs |-> counterExprs]
ExitForStmt == [type |-> "ExitForStmt"]

\* The frame of the block whose statements are being visited.
Top == stack[Len(stack)]

\* The node as the parser delivers it: with its source location (line, col) and,
\* for the record of the module's structure, the construct and arm it sits in.
At(node) ==
    node @@
    [loc |-> <<Len(ast) + 1, 0>>, parent |-> <<Top.line, Top.arm>>,
     scope |-> Len(compiled)]

\* The k-th condition of the IF statement on source line `line`.
CondAt(condExpr, line, k) == condExpr @@ [loc |-> <<line, k>>]

Generating == phase = "gen" /\ stack # <<>>
CanVisit == Generating /\ Len(ast) < budget.stmts

\* this.throwError(...): generation stops with a CodegenError.
throwError(message) ==
    /\ phase' = "failed"
    /\ error' = message

\* A statement's chunks are added to the block being generated.
Emit(chunks) ==
    stack' = [stack EXCEPT ![Len(stack)].chunks = @ \o chunks,
                           ![Len(stack)].n = @ + 1]

-----------------------------------------------------------------------------
(* Statements without nested statements. *)

visitLabelStmt(node) ==
    /\ CanVisit
    /\ ast' = Append(ast, At(node))
    /\ Emit(<<generateLabelStmt(node.label)>>)
    /\ UNCHANGED <<nextGeneratedLabelIdx, openForStmtStates, openLoopStmtStates,
                   compiled, phase, error, execVars>>
    /\ UNCHANGED <<runtimeVars, analyzerVars>>

visitAssignStmt(node) ==
    /\ CanVisit
    /\ ast' = Append(ast, At(node))
    /\ Emit(<<createStmtSourceNode(At(node),
                <<[op |-> "set", target |-> accept(node.targetExpr),
                   value |-> accept(node.valueExpr)]>>)>>)
    /\ UNCHANGED <<nextGeneratedLabelIdx, openForStmtStates, openLoopStmtStates,
                   compiled, phase, error, execVars>>
    /\ UNCHANGED <<runtimeVars, analyzerVars>>

visitPrintStmt(node) ==
    /\ CanVisit
    /\ ast' = Append(ast, At(node))
    /\ Emit(<<createStmtSourceNode(At(node),
                <<[op |-> "print",
                   args |-> [i \in 1 .. Len(node.args) |->
                               IF isSeparator(node.args[i])
                               THEN [type |-> node.args[i].v]
                               ELSE [type |-> "VALUE",
                                     value |-> accept(node.args[i])]]]>>)>>)
    /\ UNCHANGED <<nextGeneratedLabelIdx, openForStmtStates, openLoopStmtStates,
                   compiled, phase, error, execVars>>
    /\ UNCHANGED <<runtimeVars, analyzerVars>>

visitGotoStmt(node) ==
    /\ CanVisit
    /\ ast' = Append(ast, At(node))
    /\ Emit(<<createStmtSourceNode(At(node), <<generateGotoCode(node.destLabel)>>)>>)
    /\ UNCHANGED <<nextGeneratedLabelIdx, openForStmtStates, openLoopStmtStates,
                   compiled, phase, error, execVars>>
    /\ UNCHANGED <<runtimeVars, analyzerVars>>

visitGosubStmt(node) ==
    /\ CanVisit
    /\ ast' = Append(ast, At(node))
    /\ Emit(<<createStmtSourceNode(At(node),
                <<[op |-> "return",
                   directive |-> [type |-> "gosub", destLabel |-> node.destLabel]]>>)>>)
    /\ UNCHANGED <<nextGeneratedLabelIdx, openForStmtStates, openLoopStmtStates,
                   compiled, phase, error, execVars>>
    /\ UNCHANGED <<runtimeVars, analyzerVars>>

visitReturnStmt(node) ==
    /\ CanVisit
    /\ ast' = Append(ast, At(node))
    /\ Emit(<<createStmtSourceNode(At(node),
                <<[op |-> "return",
                   directive |-> [type |-> "return", destLabel |-> node.destLabel]]>>)>>)
    /\ UNCHANGED <<nextGeneratedLabelIdx, openForStmtStates, openLoopStmtStates,
                   compiled, phase, error, execVars>>
    /\ UNCHANGED <<runtimeVars, analyzerVars>>

visitEndStmt(node) ==
    /\ CanVisit
    /\ ast' = Append(ast, At(node))
    /\ Emit(<<createStmtSourceNode(At(node),
                <<[op |-> "return",
                   directive |-> [type |-> "end", destLabel |-> ""]]>>)>>)
    /\ UNCHANGED <<nextGeneratedLabelIdx, openForStmtStates, openLoopStmtStates,
                   compiled, phase, error, execVars>>
    /\ UNCHANGED <<runtimeVars, analyzerVars>>


-----------------------------------------------------------------------------
(* FOR / NEXT / EXIT FOR. *)


\* A guard that also leaves the loop when the counter equals the end value.
forGuardTest_exitsAtEnd(stepValue, endValue) ==
    JsBin("||",
          JsBin("&&", JsBin(">=", stepValue, JsLit(0)),
                      JsBin(">=", JsConst("counterValue"), endValue)),
          JsBin("&&", JsBin("<", stepValue, JsLit(0)),
                      JsBin("<=", JsConst("counterValue"), endValue)))

\* The test of the FOR guard statement:
\* (step >= 0 && counterValue > end) || (step < 0 && counterValue < end).
forGuardTest(stepValue, endValue) ==
    JsBin("||",
          JsBin("&&", JsBin(">=", stepValue, JsLit(0)),
                      JsBin(">", JsConst("counterValue"), endValue)),
          JsBin("&&", JsBin("<", stepValue, JsLit(0)),
                      JsBin("<", JsConst("counterValue"), endValue)))

\* An initialisation that evaluates the end expression before the counter is
\* assigned.
forInitCode_endFirst(node, stepValue, endValue) ==
    << [op |-> "set", target |-> endValue, value |-> accept(node.endExpr)],
       [op |-> "set", target |-> accept(node.counterExpr),
        value |-> accept(node.startExpr)],
       [op |-> "set", target |-> stepValue,
        value |-> IF node.stepExpr.type # "none" THEN accept(node.stepExpr)
                  ELSE JsLit(1)] >>

\* The initialisation statement of a FOR: counter, then step, then end.
forInitCode(node, stepValue, endValue) ==
    << [op |-> "set", target |-> accept(node.counterExpr),
        value |-> accept(node.startExpr)],
       [op |-> "set", target |-> stepValue,
        value |-> IF node.stepExpr.type # "none" THEN accept(node.stepExpr)
                  ELSE JsLit(1)],
       [op |-> "set", target |-> endValue, value |-> accept(node.endExpr)] >>

\* A ForStmtState whose end label is the start label.
ForStmtState_endIsStart(node, labelPrefix) ==
    [forStmt |-> node,
     startLabel |-> labelPrefix \o "_loopStart",
     endLabel |-> labelPrefix \o "_loopStart",
     stepValue |-> generateTempVarRef(labelPrefix \o "_step"),
     endValue |-> generateTempVarRef(labelPrefix \o "_end")]

\* The ForStmtState pushed for an open FOR.
ForStmtState(node, labelPrefix) ==
    [forStmt |-> node,
     startLabel |-> labelPrefix \o "_loopStart",
     endLabel |-> labelPrefix \o "_loopEnd",
     stepValue |-> generateTempVarRef(labelPrefix \o "_step"),
     endValue |-> generateTempVarRef(labelPrefix \o "_end")]

visitForStmt(node) ==
    /\ CanVisit
    /\ ast' = Append(ast, At(node))
    /\ LET st == ForStmtState(At(node), generateLabel(nextGeneratedLabelIdx)) IN
        /\ nextGeneratedLabelIdx' = nextGeneratedLabelIdx + 1
        /\ openForStmtStates' = Append(openForStmtStates, st)
        /\ Emit(<< createStmtSourceNode(At(node),
                       forInitCode(node, st.stepValue, st.endValue)),
                   generateLabelStmt(st.startLabel),
                   createStmtSourceNode(At(node),
                       << [op |-> "const", name |-> "counterValue",
                           value |-> accept(node.counterExpr)],
                          [op |-> "if",
                           test |-> forGuardTest(st.stepValue, st.endValue),
                           then |-> generateGotoCode(st.endLabel)] >>) >>)
    /\ UNCHANGED <<openLoopStmtStates, compiled, phase, error, execVars>>
    /\ UNCHANGED <<runtimeVars, analyzerVars>>

\* How many open FOR statements a NEXT closes: counterExprs.length || 1.
numForStmtStatesToClose(node) ==
    IF Len(node.counterExprs) # 0 THEN Len(node.counterExprs) ELSE 1

\* The open FOR statements indexed from the outermost one.
forStmtStateAt_fromBottom(states, i) == states[i + 1]

\* openForStmtStates[openForStmtStates.length - 1 - i], i counted from 0.
forStmtStateAt(states, i) == states[Len(states) - i]

\* A comparison that takes every counter for the FOR's.
counterMatches_always(nextCounterExprString, forStmtCounterExprString) == TRUE

\* Whether NEXT counter text and FOR counter text are the same string.
counterMatches(nextCounterExprString, forStmtCounterExprString) ==
    nextCounterExprString = forStmtCounterExprString

\* The first (0-based) index whose counter does not match, or -1.
firstMismatch(node, states) ==
    LET bad == { i \in 0 .. Len(node.counterExprs) - 1 :
                   ~counterMatches(
                       toString(accept(node.counterExprs[i + 1])),
                       toString(accept(forStmtStateAt(states, i).forStmt.counterExpr))) }
    IN  IF bad = {} THEN -1 ELSE CHOOSE i \in bad : \A j \in bad : i <= j

\* Chunks of a NEXT whose last statement deletes the step temporary only.
nextChunks_keepsEnd(node, st) ==
    << createStmtSourceNode(node,
           << [op |-> "add", target |-> accept(st.forStmt.counterExpr),
               value |-> st.stepValue],
              generateGotoCode(st.startLabel) >>),
       generateLabelStmt(st.endLabel),
       createStmtSourceNode(st.forStmt,
           << [op |-> "delete", target |-> st.stepValue] >>) >>

\* The chunks emitted when a NEXT pops one ForStmtState.
nextChunks(node, st) ==
    << createStmtSourceNode(node,
           << [op |-> "add", target |-> accept(st.forStmt.counterExpr),
               value |-> st.stepValue],
              generateGotoCode(st.startLabel) >>),
       generateLabelStmt(st.endLabel),
       createStmtSourceNode(st.forStmt,
           << [op |-> "delete", target |-> st.stepValue],
              [op |-> "delete", target |-> st.endValue] >>) >>

RECURSIVE closeForStmts(_, _, _)
\* The pop loop of visitNextStmt: pops k states, innermost first.
closeForStmts(node, states, k) ==
    IF k = 0 THEN <<>>
    ELSE nextChunks(node, Last(states)) \o closeForStmts(node, Front(states), k - 1)

visitNextStmt(node) ==
    /\ CanVisit
    /\ ast' = Append(ast, At(node))
    /\ LET k == numForStmtStatesToClose(node) IN
        IF k > Len(openForStmtStates)
        THEN /\ throwError("NEXT statement without corresponding FOR statement")
             /\ UNCHANGED <<openForStmtStates, stack>>
        ELSE IF firstMismatch(node, openForStmtStates) # -1
        THEN /\ throwError("Counter #"
                           \o ToString(firstMismatch(node, openForStmtStates) + 1)
                           \o " does not match corresponding FOR statement")
             /\ UNCHANGED <<openForStmtStates, stack>>
        ELSE /\ Emit(closeForStmts(At(node), openForStmtStates, k))
             /\ openForStmtStates' =
                    SubSeq(openForStmtStates, 1, Len(openForStmtStates) - k)
             /\ UNCHANGED <<phase, error>>
    /\ UNCHANGED <<nextGeneratedLabelIdx, openLoopStmtStates, compiled, execVars>>
    /\ UNCHANGED <<runtimeVars, analyzerVars>>

\* The outermost state of a stack of open statements.
innermost_first(states) == states[1]

\* The innermost state of a stack of open statements.
innermost(states) == states[Len(states)]

visitExitForStmt(node) ==
    /\ CanVisit
    /\ ast' = Append(ast, At(node))
    /\ IF Len(openForStmtStates) = 0
       THEN /\ throwError("EXIT FOR statement outside FOR loop")
            /\ UNCHANGED stack
       ELSE /\ Emit(<<createStmtSourceNode(At(node),
                        <<generateGotoCode(innermost(openForStmtStates).endLabel)>>)>>)
            /\ UNCHANGED <<phase, error>>
    /\ UNCHANGED <<nextGeneratedLabelIdx, openForStmtStates, openLoopStmtStates,
                   compiled, execVars>>
    /\ UNCHANGED <<runtimeVars, analyzerVars>>


-----------------------------------------------------------------------------
(* Blocks: visitStmts and the constructs that nest statements. *)

\* A check at the end of visitStmts that never finds a FOR left open.
forLeftOpen_never(length, origOpenForStmtStatesLength) == FALSE

\* The check at the end of visitStmts: a FOR opened in the list is still open.
forLeftOpen(length, origOpenForStmtStatesLength) ==
    length > origOpenForStmtStatesLength

ForWithoutNext == "FOR statement without corresponding NEXT statement"

CanNest == CanVisit /\ Len(stack) <= MaxDepth

\* A finished construct hands its chunks to the block that holds it.
ReturnChunks(chunks) ==
    stack' = [Front(stack) EXCEPT ![Len(stack) - 1].chunks = @ \o chunks,
                                  ![Len(stack) - 1].n = @ + 1]

\* Labels of the arm boundaries of an IF: _elifK, then _else, then _endif.
branchLabelsOf(node, branchLabelPrefix) ==
    [i \in 1 .. Len(node.condExprs) - 1 |->
        branchLabelPrefix \o "_elif" \o ToString(i)]
    \o (IF node.hasElse THEN <<branchLabelPrefix \o "_else">> ELSE <<>>)
    \o <<branchLabelPrefix \o "_endif">>

\* The conditional goto opening an arm: if (!(cond)) goto nextBranchLabel.
ifCondStmt(condExpr, nextBranchLabel) ==
    createStmtSourceNode(condExpr,
        << [op |-> "if", test |-> JsNot(accept(condExpr)),
            then |-> generateGotoCode(nextBranchLabel)] >>)

\* An arm test that also drops the goto of the arm before the last boundary.
armJumpsToEndIf_dropsOne(nextBranchLabelIdx, numBranchLabels) ==
    nextBranchLabelIdx < numBranchLabels - 2

\* Whether an arm ends with a goto to _endif: nextBranchLabelIdx < length - 1.
armJumpsToEndIf(nextBranchLabelIdx, numBranchLabels) ==
    nextBranchLabelIdx < numBranchLabels - 1

visitIfStmt(node) ==
    /\ CanNest
    /\ ast' = Append(ast, At(node))
    /\ LET branchLabelPrefix == generateLabel(nextGeneratedLabelIdx)
           branchLabels == branchLabelsOf(node, branchLabelPrefix)
           line == Len(ast) + 1
       IN  stack' = Append(stack,
               [kind |-> "if", orig |-> Len(openForStmtStates), chunks |-> <<>>,
                n |-> 0, line |-> line, arm |-> 1, node |-> At(node),
                branchLabels |-> branchLabels, idx |-> 0,
                endIfLabel |-> branchLabelPrefix \o "_endif",
                out |-> <<ifCondStmt(CondAt(node.condExprs[1], line, 1),
                                     branchLabels[1])>>])
    /\ nextGeneratedLabelIdx' = nextGeneratedLabelIdx + 1
    /\ UNCHANGED <<openForStmtStates, openLoopStmtStates, compiled, phase, error,
                   execVars>>
    /\ UNCHANGED <<runtimeVars, analyzerVars>>

\* The end of an IF / ELSEIF arm's statements.
visitIfStmt_endBranch ==
    /\ Generating
    /\ Top.kind = "if"
    /\ Top.arm <= Len(Top.node.condExprs)
    /\ IF forLeftOpen(Len(openForStmtStates), Top.orig)
       THEN /\ throwError(ForWithoutNext)
            /\ UNCHANGED stack
       ELSE LET f == Top
                condExpr == CondAt(f.node.condExprs[f.arm], f.line, f.arm)
                out1 == f.out \o f.chunks
                        \o (IF armJumpsToEndIf(f.idx, Len(f.branchLabels))
                            THEN <<createStmtSourceNode(condExpr,
                                       <<generateGotoCode(f.endIfLabel)>>)>>
                            ELSE <<>>)
                        \o <<generateLabelStmt(f.branchLabels[f.idx + 1])>>
            IN  /\ UNCHANGED <<phase, error>>
                /\ IF f.arm < Len(f.node.condExprs)
                   THEN stack' = [stack EXCEPT ![Len(stack)] =
                            [f EXCEPT !.out = out1 \o
                                        <<ifCondStmt(CondAt(f.node.condExprs[f.arm + 1],
                                                            f.line, f.arm + 1),
                                                     f.branchLabels[f.idx + 2])>>,
                                      !.idx = f.idx + 1, !.arm = f.arm + 1,
                                      !.chunks = <<>>, !.n = 0,
                                      !.orig = Len(openForStmtStates)]]
                   ELSE IF f.node.hasElse
                   THEN stack' = [stack EXCEPT ![Len(stack)] =
                            [f EXCEPT !.out = out1, !.idx = f.idx + 1,
                                      !.arm = f.arm + 1, !.chunks = <<>>, !.n = 0,
                                      !.orig = Len(openForStmtStates)]]
                   ELSE ReturnChunks(out1)
    /\ UNCHANGED <<nextGeneratedLabelIdx, openForStmtStates, openLoopStmtStates,
                   compiled, ast, execVars>>
    /\ UNCHANGED <<runtimeVars, analyzerVars>>

\* The end of the ELSE branch's statements (elseBranch.length > 0).
visitIfStmt_endElse ==
    /\ Generating
    /\ Top.kind = "if"
    /\ Top.arm = Len(Top.node.condExprs) + 1
    /\ Top.n > 0
    /\ IF forLeftOpen(Len(openForStmtStates), Top.orig)
       THEN /\ throwError(ForWithoutNext)
            /\ UNCHANGED stack
       ELSE /\ ReturnChunks(Top.out \o Top.chunks
                            \o <<generateLabelStmt(Top.endIfLabel)>>)
            /\ UNCHANGED <<phase, error>>
    /\ UNCHANGED <<nextGeneratedLabelIdx, openForStmtStates, openLoopStmtStates,
                   compiled, ast, execVars>>
    /\ UNCHANGED <<runtimeVars, analyzerVars>>

\* An exit test with the negation on the wrong side.
condLoopTest_inverted(node) ==
    IF node.isCondNegated THEN JsNot(accept(node.condExpr))
    ELSE accept(node.condExpr)

\* The test of a conditional loop's exit statement.
condLoopTest(node) ==
    IF node.isCondNegated THEN accept(node.condExpr)
    ELSE JsNot(accept(node.condExpr))

\* The state pushed on openLoopStmtStates for a loop.
LoopStmtState(node, loopEndLabel) == [loopStmt |-> node, endLabel |-> loopEndLabel]

\* A loop end that leaves the loop's state on the stack.
popLoopStmtState_keeps(states) == states

\* openLoopStmtStates.pop() after a loop's statements.
popLoopStmtState(states) == Front(states)

visitCondLoopStmt(node) ==
    /\ CanNest
    /\ ast' = Append(ast, At(node))
    /\ LET labelPrefix == generateLabel(nextGeneratedLabelIdx)
           loopEndLabel == labelPrefix \o "_loopEnd"
       IN  /\ stack' = Append(stack,
                 [kind |-> "condLoop", orig |-> Len(openForStmtStates),
                  chunks |-> <<>>, n |-> 0, line |-> Len(ast) + 1, arm |-> 0,
                  node |-> At(node),
                  loopStartLabel |-> labelPrefix \o "_loopStart",
                  loopEndLabel |-> loopEndLabel,
                  condStmt |-> createStmtSourceNode(At(node),
                      << [op |-> "if", test |-> condLoopTest(node),
                          then |-> generateGotoCode(loopEndLabel)] >>)])
           /\ openLoopStmtStates' =
                  Append(openLoopStmtStates, LoopStmtState(At(node), loopEndLabel))
    /\ nextGeneratedLabelIdx' = nextGeneratedLabelIdx + 1
    /\ UNCHANGED <<openForStmtStates, compiled, phase, error, execVars>>
    /\ UNCHANGED <<runtimeVars, analyzerVars>>

\* The chunks of a conditional loop, by its structure.
condLoopChunks(f) ==
    <<generateLabelStmt(f.loopStartLabel)>>
    \o (IF f.node.structure = "COND_EXPR_BEFORE_STMTS"
        THEN <<f.condStmt>> \o f.chunks
        ELSE f.chunks \o <<f.condStmt>>)
    \o << createStmtSourceNode(f.node, <<generateGotoCode(f.loopStartLabel)>>),
          generateLabelStmt(f.loopEndLabel) >>

\* The end of a conditional loop's statements.
visitCondLoopStmt_end ==
    /\ Generating
    /\ Top.kind = "condLoop"
    /\ IF forLeftOpen(Len(openForStmtStates), Top.orig)
       THEN /\ throwError(ForWithoutNext)
            /\ UNCHANGED <<stack, openLoopStmtStates>>
       ELSE /\ openLoopStmtStates' = popLoopStmtState(openLoopStmtStates)
            /\ ReturnChunks(condLoopChunks(Top))
            /\ UNCHANGED <<phase, error>>
    /\ UNCHANGED <<nextGeneratedLabelIdx, openForStmtStates, compiled, ast, execVars>>
    /\ UNCHANGED <<runtimeVars, analyzerVars>>

visitUncondLoopStmt(node) ==
    /\ CanNest
    /\ ast' = Append(ast, At(node))
    /\ LET labelPrefix == generateLabel(nextGeneratedLabelIdx)
           loopEndLabel == labelPrefix \o "_loopEnd"
       IN  /\ stack' = Append(stack,
                 [kind |-> "uncondLoop", orig |-> Len(openForStmtStates),
                  chunks |-> <<>>, n |-> 0, line |-> Len(ast) + 1, arm |-> 0,
                  node |-> At(node),
                  loopStartLabel |-> labelPrefix \o "_loopStart",
                  loopEndLabel |-> loopEndLabel])
           /\ openLoopStmtStates' =
                  Append(openLoopStmtStates, LoopStmtState(At(node), loopEndLabel))
    /\ nextGeneratedLabelIdx' = nextGeneratedLabelIdx + 1
    /\ UNCHANGED <<openForStmtStates, compiled, phase, error, execVars>>
    /\ UNCHANGED <<runtimeVars, analyzerVars>>

\* The end of an unconditional loop's statements.
visitUncondLoopStmt_end ==
    /\ Generating
    /\ Top.kind = "uncondLoop"
    /\ IF forLeftOpen(Len(openForStmtStates), Top.orig)
       THEN /\ throwError(ForWithoutNext)
            /\ UNCHANGED <<stack, openLoopStmtStates>>
       ELSE /\ openLoopStmtStates' = popLoopStmtState(openLoopStmtStates)
            /\ ReturnChunks(<<generateLabelStmt(Top.loopStartLabel)>>
                            \o Top.chunks
                            \o << createStmtSourceNode(Top.node,
                                      <<generateGotoCode(Top.loopStartLabel)>>),
                                  generateLabelStmt(Top.loopEndLabel) >>)
            /\ UNCHANGED <<phase, error>>
    /\ UNCHANGED <<nextGeneratedLabelIdx, openForStmtStates, compiled, ast, execVars>>
    /\ UNCHANGED <<runtimeVars, analyzerVars>>

visitExitLoopStmt(node) ==
    /\ CanVisit
    /\ ast' = Append(ast, At(node))
    /\ IF Len(openLoopStmtStates) = 0
       THEN /\ throwError("EXIT DO statement outside DO loop")
            /\ UNCHANGED stack
       ELSE /\ Emit(<<createStmtSourceNode(At(node),
                        <<generateGotoCode(innermost(openLoopStmtStates).endLabel)>>)>>)
            /\ UNCHANGED <<phase, error>>
    /\ UNCHANGED <<nextGeneratedLabelIdx, openForStmtStates, openLoopStmtStates,
                   compiled, execVars>>
    /\ UNCHANGED <<runtimeVars, analyzerVars>>

-----------------------------------------------------------------------------
(* The module and its procs. *)

\* A frame for the statement list of the module or of a proc.
StmtsFrame(kind, orig) ==
    [kind |-> kind, orig |-> orig, chunks |-> <<>>, n |-> 0, line |-> 0, arm |-> 0]

\* visitModule: module.stmts is exhausted.
visitModule_endStmts ==
    /\ Generating
    /\ Top.kind = "module"
    /\ IF forLeftOpen(Len(openForStmtStates), Top.orig)
       THEN /\ throwError(ForWithoutNext)
            /\ UNCHANGED <<stack, compiled>>
       ELSE /\ compiled' = <<Top.chunks>>
            /\ stack' = <<>>
            /\ UNCHANGED <<phase, error>>
    /\ UNCHANGED <<nextGeneratedLabelIdx, openForStmtStates, openLoopStmtStates,
                   ast, execVars>>
    /\ UNCHANGED <<runtimeVars, analyzerVars>>

\* visitFnProc: acceptAll(module.procs) reaches the next proc.
visitFnProc ==
    /\ phase = "gen"
    /\ stack = <<>>
    /\ Len(compiled) <= MaxProcs
    /\ stack' = <<StmtsFrame("proc", Len(openForStmtStates))>>
    /\ UNCHANGED <<nextGeneratedLabelIdx, openForStmtStates, openLoopStmtStates,
                   compiled, phase, error, ast, execVars>>
    /\ UNCHANGED <<runtimeVars, analyzerVars>>

\* visitFnProc: the proc's statements are exhausted.
visitFnProc_endStmts ==
    /\ Generating
    /\ Top.kind = "proc"
    /\ IF forLeftOpen(Len(openForStmtStates), Top.orig)
       THEN /\ throwError(ForWithoutNext)
            /\ UNCHANGED <<stack, compiled>>
       ELSE /\ compiled' = Append(compiled, Top.chunks)
            /\ stack' = <<>>
            /\ UNCHANGED <<phase, error>>
    /\ UNCHANGED <<nextGeneratedLabelIdx, openForStmtStates, openLoopStmtStates,
                   ast, execVars>>
    /\ UNCHANGED <<runtimeVars, analyzerVars>>

\* visitModule returns: every proc has been generated.
visitModule_return ==
    /\ phase = "gen"
    /\ stack = <<>>
    /\ phase' = "done"
    /\ UNCHANGED <<nextGeneratedLabelIdx, openForStmtStates, openLoopStmtStates,
                   stack, compiled, error, ast, execVars>>
    /\ UNCHANGED <<runtimeVars, analyzerVars>>

\* The analyzer before run(): nothing visited, no error.
NotAnalyzed == [at |-> "none", proc |-> 0, error |-> ""]

\* The state after construction, visitModule having entered module.stmts, of
\* all but the analyzer.
Constructed ==
    /\ nextGeneratedLabelIdx = 1
    /\ openForStmtStates = <<>>
    /\ openLoopStmtStates = <<>>
    /\ stack = <<StmtsFrame("module", 0)>>
    /\ compiled = <<>>
    /\ phase = "gen"
    /\ error = ""
    /\ ast = <<>>
    /\ pc = 0
    /\ localVars = NoVars
    /\ tempVars = NoVars
    /\ trace = <<>>
    /\ printed = <<>>
    /\ pendingCall = [fn |-> "none"]
    /\ isRunning = FALSE
    /\ rendered = FALSE
    /\ runs = 0
    /\ calls = <<>>

\* The state after construction, the module being one without procs.
Start ==
    /\ Constructed
    /\ module = [procs |-> <<>>]
    /\ currentProc = 0
    /\ analysis = NotAnalyzed

Init == Start /\ budget = [stmts |-> MaxStmts, steps |-> 0]

-----------------------------------------------------------------------------
(* Code generation of every module up to the bounds. *)

LabelNames == {"a"}
DestLabels == {"a"}
GenCond == LiteralExpr(1)
CounterNames == {"i", "j"}

GenForStmts ==
    { ForStmt(VarRefExpr(c), LiteralExpr(1), LiteralExpr(2), NoExpr) :
        c \in CounterNames }

\* NEXT with zero, one or two named counters.
GenNextStmts ==
    { NextStmt(<<>>) }
    \cup { NextStmt(<<VarRefExpr(c)>>) : c \in CounterNames }
    \cup { NextStmt(<<VarRefExpr(c), VarRefExpr(d)>>) : c, d \in CounterNames }

GenIfStmts ==
    { IfStmt([k \in 1 .. n |-> GenCond], e) : n \in 1 .. MaxArms, e \in BOOLEAN }

GenCondLoopStmts ==
    { CondLoopStmt("COND_EXPR_BEFORE_STMTS", FALSE, GenCond),
      CondLoopStmt("COND_EXPR_AFTER_STMTS", TRUE, GenCond) }

NextGen ==
    \/ \E l \in LabelNames : visitLabelStmt(LabelStmt(l))
    \/ \E l \in DestLabels : visitGotoStmt(GotoStmt(l))
    \/ \E l \in DestLabels : visitGosubStmt(GosubStmt(l))
    \/ \E l \in DestLabels \cup {""} : visitReturnStmt(ReturnStmt(l))
    \/ \E node \in GenIfStmts : visitIfStmt(node)
    \/ visitIfStmt_endBranch
    \/ visitIfStmt_endElse
    \/ \E node \in GenCondLoopStmts : visitCondLoopStmt(node)
    \/ visitCondLoopStmt_end
    \/ visitUncondLoopStmt(UncondLoopStmt)
    \/ visitUncondLoopStmt_end
    \/ visitExitLoopStmt(ExitLoopStmt)
    \/ \E node \in GenForStmts : visitForStmt(node)
    \/ \E node \in GenNextStmts : visitNextStmt(node)
    \/ visitExitForStmt(ExitForStmt)
    \/ visitModule_endStmts
    \/ visitFnProc
    \/ visitFnProc_endStmts
    \/ visitModule_return

SpecGen == Init /\ [][NextGen]_vars


-----------------------------------------------------------------------------
(* Runtime.print (src/src/runtime/runtime.ts): the line it builds.             *)
(* JavaScript strings are TLA+ strings: \o is +, Len is .length.               *)

\* A JavaScript string value.
JsString(s) == [t |-> "string", v |-> s]

RECURSIVE repeat(_, _)
\* String.prototype.repeat.
repeat(s, count) == IF count <= 0 THEN "" ELSE s \o repeat(s, count - 1)

\* The arguments of print: PrintArg of compiled-code.
Semicolon == [type |-> "SEMICOLON"]
Comma == [type |-> "COMMA"]
Value(x) == [type |-> "VALUE", value |-> x]

PRINT_ZONE_LENGTH == 14

\* A padding that stays put on a zone boundary.
numPaddingChars_staysAtBoundary(line) ==
    (PRINT_ZONE_LENGTH - (Len(line) % PRINT_ZONE_LENGTH)) % PRINT_ZONE_LENGTH

\* The spaces a Comma adds to the line built so far.
numPaddingChars(line) == PRINT_ZONE_LENGTH - (Len(line) % PRINT_ZONE_LENGTH)

\* `${value}` of a number that is an integer, NaN or an infinity.
numberText(x) ==
    CASE isInteger(x) -> ToString(x.v)
      [] isNaN(x) -> "NaN"
      [] x = Infinity(1) -> "Infinity"
      [] x = Infinity(-1) -> "-Infinity"

\* value >= 0 of a number.
notNegative(x) == x.t = "number" /\ x.v >= 0

\* What one argument adds to the line; threw when it is no printable value.
printArg(arg, line) ==
    CASE arg.type = "SEMICOLON" -> [threw |-> FALSE, text |-> ""]
      [] arg.type = "COMMA" ->
            [threw |-> FALSE, text |-> repeat(" ", numPaddingChars(line))]
      [] arg.type = "VALUE" /\ arg.value.t = "string" ->
            [threw |-> FALSE, text |-> arg.value.v]
      [] arg.type = "VALUE" /\ isNumber(arg.value) ->
            [threw |-> FALSE,
             text |-> (IF notNegative(arg.value) THEN " " ELSE "")
                        \o numberText(arg.value) \o " "]
      [] OTHER -> [threw |-> TRUE, text |-> ""]

RECURSIVE printLoop(_, _, _)
\* The loop of print over its arguments: the line, and what each argument
\* added to it.
printLoop(args, line, pieces) ==
    IF args = <<>> THEN [threw |-> FALSE, line |-> line, pieces |-> pieces]
    ELSE LET r == printArg(Head(args), line) IN
         IF r.threw THEN [threw |-> TRUE, line |-> line, pieces |-> pieces]
         ELSE printLoop(Tail(args), line \o r.text, Append(pieces, r.text))

\* A line end that only a trailing Semicolon holds back.
endsLine_unlessSemicolon(args) ==
    args = <<>> \/ args[Len(args)].type # "SEMICOLON"

\* Whether print ends the line with a newline.
endsLine(args) == args = <<>> \/ args[Len(args)].type = "VALUE"

\* platform.print(s).
platformPrint(out, s) == Append(out, s)

-----------------------------------------------------------------------------
(* The executor: a trampoline over the module's compiled statement list. *)

\* The context a statement's run(ctx) works on, with the run's own constants.
\* printed is what the statement has handed to platform.print.
Ctx(lv, tv) ==
    [localVars |-> lv, tempVars |-> tv, consts |-> NoVars, printed |-> <<>>]

NoDirective == [type |-> "none", destLabel |-> ""]
\* run(ctx) left by an exception instead of a return.
Thrown == [type |-> "throw", destLabel |-> ""]

\* A relational operator of JavaScript on two numbers.
jsCompare(o, l, r) ==
    CASE o = ">" -> l > r
      [] o = ">=" -> l >= r
      [] o = "<" -> l < r
      [] o = "<=" -> l <= r

\* ToNumber of a boolean, undefined or a number.
toNumber(x) ==
    CASE x.t = "boolean" -> Num(IF x.v THEN 1 ELSE 0)
      [] x.t = "undefined" -> NaN
      [] OTHER -> x

sign(n) == IF n < 0 THEN -1 ELSE 1
abs(n) == IF n < 0 THEN -n ELSE n

\* The largest integer that is at most p / q, q not 0.
floorDiv(p, q) == IF q > 0 THEN p \div q ELSE (-p) \div (-q)

\* l / r of two integers.
jsDivide(l, r) ==
    IF r = 0 THEN (IF l = 0 THEN NaN ELSE Infinity(sign(l)))
    ELSE IF abs(l) % abs(r) = 0 THEN Num(sign(l) * sign(r) * (abs(l) \div abs(r)))
    ELSE Fraction(l, r)

\* l % r of two integers: the sign is the dividend's.
jsRemainder(l, r) ==
    IF r = 0 THEN NaN ELSE Num(sign(l) * (abs(l) % abs(r)))

\* l < r of two numbers that are integers or infinities.
jsLess(l, r) ==
    IF isInteger(l) /\ isInteger(r) THEN l.v < r.v
    ELSE IF isInfinity(l) THEN l.v = -1 /\ l # r
    ELSE r.v = 1

\* l === r of two values.
strictEquals(l, r) == l.t = r.t /\ ~isNaN(l) /\ l = r

\* l == r of two values that are booleans, undefined or numbers.
looseEquals(l, r) ==
    IF l.t = r.t THEN strictEquals(l, r)
    ELSE IF l.t = "undefined" \/ r.t = "undefined" THEN FALSE
    ELSE strictEquals(toNumber(l), toNumber(r))

\* An arithmetic or relational operator on two values that are booleans,
\* undefined, integers, infinities or NaN.
jsBinary(o, lv, rv) ==
    LET l == toNumber(lv)
        r == toNumber(rv)
    IN  CASE o = "===" -> Bool(strictEquals(lv, rv))
          [] o = "!=" -> Bool(~looseEquals(lv, rv))
          [] o \in {">", ">=", "<", "<="} ->
                IF isNaN(l) \/ isNaN(r) THEN Bool(FALSE)
                ELSE IF isInteger(l) /\ isInteger(r)
                THEN Bool(jsCompare(o, l.v, r.v))
                ELSE (CASE o = "<" -> Bool(jsLess(l, r))
                        [] o = ">" -> Bool(jsLess(r, l))
                        [] o = "<=" -> Bool(jsLess(l, r) \/ l = r)
                        [] o = ">=" -> Bool(jsLess(r, l) \/ l = r))
          [] isNaN(l) \/ isNaN(r) -> NaN
          [] isInteger(l) /\ isInteger(r) ->
                (CASE o = "+" -> Num(l.v + r.v)
                   [] o = "-" -> Num(l.v - r.v)
                   [] o = "*" -> Num(l.v * r.v)
                   [] o = "/" -> jsDivide(l.v, r.v)
                   [] o = "%" -> jsRemainder(l.v, r.v))
          [] o = "+" /\ (isInfinity(l) \/ isInfinity(r)) ->
                IF isInfinity(l) /\ isInfinity(r) /\ l # r THEN NaN
                ELSE IF isInfinity(l) THEN l ELSE r
          [] o = "-" /\ (isInfinity(l) \/ isInfinity(r)) ->
                IF isInfinity(l) /\ isInfinity(r) /\ l = r THEN NaN
                ELSE IF isInfinity(l) THEN l ELSE Infinity(-r.v)
          [] o = "*" /\ (isInfinity(l) \/ isInfinity(r)) ->
                IF l = Num(0) \/ r = Num(0) THEN NaN
                ELSE Infinity(sign(l.v) * sign(r.v))

\* -x of a value.
jsNegate(xv) ==
    LET x == toNumber(xv) IN
    CASE isNaN(x) -> NaN
      [] isInteger(x) -> Num(-x.v)
      [] isInfinity(x) -> Infinity(-x.v)
      [] isFraction(x) -> Fraction(-x.v, x.over)

\* Math.floor of a number.
mathFloor(x) == IF isFraction(x) THEN Num(floorDiv(x.v, x.over)) ELSE x

RECURSIVE power(_, _)
power(b, e) == IF e = 0 THEN 1 ELSE b * power(b, e - 1)

\* Math.pow of two integers.
mathPow(b, e) == IF e >= 0 THEN Num(power(b, e)) ELSE jsDivide(1, power(b, -e))

RECURSIVE evalJs(_, _)
\* The value of an emitted expression.
evalJs(code, ctx) ==
    CASE code.js = "lit" -> Num(code.value)
      [] code.js = "localVars" -> lookup(ctx.localVars, code.name)
      [] code.js = "tempVars" -> lookup(ctx.tempVars, code.name)
      [] code.js = "const" -> lookup(ctx.consts, code.name)
      [] code.js = "not" -> Bool(~truthy(evalJs(code.x, ctx)))
      [] code.js = "neg" -> jsNegate(evalJs(code.x, ctx))
      [] code.js = "call" ->
            IF code.fn = "Math.floor" THEN mathFloor(evalJs(code.args[1], ctx))
            ELSE mathPow(evalJs(code.args[1], ctx).v, evalJs(code.args[2], ctx).v)
      [] code.js = "bin" ->
            LET l == evalJs(code.l, ctx) IN
            CASE code.o = "&&" -> IF truthy(l) THEN evalJs(code.r, ctx) ELSE l
              [] code.o = "||" -> IF truthy(l) THEN l ELSE evalJs(code.r, ctx)
              [] OTHER ->
                    Only({ jsBinary(code.o, lv, rv) :
                             lv \in {l}, rv \in {evalJs(code.r, ctx)} })

\* Assignment to ctx.localVars[...] or ctx.tempVars[...].
assignJs(target, x, ctx) ==
    IF target.js = "tempVars"
    THEN [ctx EXCEPT !.tempVars = store(@, target.name, x)]
    ELSE [ctx EXCEPT !.localVars = store(@, target.name, x)]

RECURSIVE runCode(_, _)
\* The body of run(ctx): the context it leaves and the directive it returns.
runCode(ops, ctx) ==
    IF ops = <<>> THEN [ctx |-> ctx, directive |-> NoDirective]
    ELSE LET o == Head(ops) IN
         CASE o.op = "set" ->
                runCode(Tail(ops), assignJs(o.target, evalJs(o.value, ctx), ctx))
           [] o.op = "add" ->
                runCode(Tail(ops),
                        assignJs(o.target,
                                 Num(evalJs(o.target, ctx).v + evalJs(o.value, ctx).v),
                                 ctx))
           [] o.op = "const" ->
                runCode(Tail(ops),
                        [ctx EXCEPT !.consts = store(@, o.name, evalJs(o.value, ctx))])
           [] o.op = "delete" ->
                runCode(Tail(ops), [ctx EXCEPT !.tempVars = delete(@, o.target.name)])
           [] o.op = "if" ->
                IF truthy(evalJs(o.test, ctx))
                THEN [ctx |-> ctx, directive |-> o.then.directive]
                ELSE runCode(Tail(ops), ctx)
           [] o.op = "return" -> [ctx |-> ctx, directive |-> o.directive]
           [] o.op = "print" ->
                LET args == [i \in 1 .. Len(o.args) |->
                               IF o.args[i].type = "VALUE"
                               THEN Value(evalJs(o.args[i].value, ctx))
                               ELSE o.args[i]]
                    r == printLoop(args, "", <<>>)
                    line == IF endsLine(args) THEN r.line \o "\n" ELSE r.line
                IN  IF r.threw THEN [ctx |-> ctx, directive |-> Thrown]
                    ELSE runCode(Tail(ops),
                                 [ctx EXCEPT !.printed = platformPrint(@, line)])

\* The statement list the executor walks.
Stmts == compiled[1]

\* The position of the label statement named label.
labelIndex(stmts, label) ==
    CHOOSE i \in 1 .. Len(stmts) :
        /\ stmts[i].type = "label" /\ stmts[i].label = label
        /\ \A j \in 1 .. i - 1 : ~(stmts[j].type = "label" /\ stmts[j].label = label)

\* Where the executor continues after a directive returned at position at.
nextPc(stmts, at, directive) ==
    CASE directive.type = "none" -> at + 1
      [] directive.type = "goto" -> labelIndex(stmts, directive.destLabel)
      [] directive.type = "end" -> Len(stmts) + 1
      [] directive.type = "throw" -> at

\* executeModule: the executor starts on a compiled module, whatever the
\* variables hold.
executeModule(startVars) ==
    /\ phase = "done"
    /\ phase' = "exec"
    /\ pc' = 1
    /\ localVars' \in startVars
    /\ tempVars' = NoVars
    /\ trace' = <<>>
    /\ UNCHANGED <<nextGeneratedLabelIdx, openForStmtStates, openLoopStmtStates,
                   stack, compiled, error, ast, budget, playgroundVars>>
    /\ UNCHANGED <<runtimeVars, analyzerVars>>

\* One turn of the executor's loop: skip a label, or run a statement and follow
\* the directive it returns; past the last statement the execution ends, and an
\* exception a statement throws ends it at that statement.
executeStep ==
    /\ phase = "exec"
    /\ IF pc > Len(Stmts)
       THEN /\ phase' = "halted"
            /\ UNCHANGED <<pc, localVars, tempVars, trace, printed>>
       ELSE IF Stmts[pc].type = "label"
       THEN /\ pc' = pc + 1
            /\ UNCHANGED <<phase, localVars, tempVars, trace, printed>>
       ELSE /\ Len(trace) < budget.steps
            /\ \E r \in {runCode(Stmts[pc].run, Ctx(localVars, tempVars))} :
               LET to == nextPc(Stmts, pc, r.directive)
                   threw == r.directive.type = "throw"
               IN  /\ localVars' = r.ctx.localVars
                   /\ tempVars' = r.ctx.tempVars
                   /\ printed' = printed \o r.ctx.printed
                   /\ pc' = to
                   /\ phase' = IF threw THEN "crashed" ELSE phase
                   /\ trace' = Append(trace,
                          [pc |-> pc, loc |-> Stmts[pc].loc,
                           op |-> Stmts[pc].run[1].op,
                           env |-> localVars, to |-> to, threw |-> threw])
    /\ UNCHANGED <<nextGeneratedLabelIdx, openForStmtStates, openLoopStmtStates,
                   stack, compiled, error, ast, budget, playgroundVars>>
    /\ UNCHANGED <<pendingCall, analyzerVars>>


-----------------------------------------------------------------------------
(* FOR loops compiled and executed: FOR c = a TO b [STEP s] over the counters  *)
(* i and j, bounds and step read from variables the executor starts with.      *)

RunForStmts ==
    { ForStmt(VarRefExpr(c), VarRefExpr("a"), VarRefExpr("b"), st) :
        c \in CounterNames, st \in {NoExpr, VarRefExpr("s")} }

RunAssignStmts == { AssignStmt(VarRefExpr("x"), VarRefExpr(c)) : c \in CounterNames }

ForStartValues == {1, 3}
ForEndValues == {1, 2, 4}
ForStepValues == {1, 2, -1, -2}

\* What the variables hold when the executor starts.
ForStartVars ==
    { [n \in {"a", "b", "s"} |->
         Num(CASE n = "a" -> a [] n = "b" -> b [] n = "s" -> st) ] :
        a \in ForStartValues, b \in ForEndValues, st \in ForStepValues }

NextFor ==
    \/ \E node \in RunForStmts : visitForStmt(node)
    \/ \E node \in GenNextStmts : visitNextStmt(node)
    \/ \E node \in RunAssignStmts : visitAssignStmt(node)
    \/ visitModule_endStmts
    \/ visitModule_return
    \/ executeModule(ForStartVars)
    \/ executeStep

InitFor == Start /\ budget = [stmts |-> MaxForStmts, steps |-> MaxForSteps]

SpecFor == InitFor /\ [][NextFor]_vars


-----------------------------------------------------------------------------
(* What a FOR loop is to do, read from the source program. *)

RECURSIVE OpenForsAfter(_)
\* The lines of the FOR statements open after the first k statements of a
\* module made of FOR, NEXT and assignments only.
OpenForsAfter(k) ==
    IF k = 0 THEN <<>>
    ELSE LET before == OpenForsAfter(k - 1) IN
         CASE ast[k].type = "ForStmt" -> Append(before, k)
           [] ast[k].type = "NextStmt" ->
                SubSeq(before, 1, Len(before) - numForStmtStatesToClose(ast[k]))
           [] OTHER -> before

RECURSIVE ForValues(_, _, _)
\* The counter values a, a+s, a+2s, ... that do not pass b.
ForValues(a, b, st) ==
    IF (st > 0 /\ a > b) \/ (st < 0 /\ a < b) THEN <<>>
    ELSE <<a>> \o ForValues(a + st, b, st)

\* The first of a, a+s, ... that passes b.
ForFinalValue(a, b, st) == a + st * Len(ForValues(a, b, st))

\* The step of the FOR on line p, given what the variables hold.
StepOf(p, env) == IF ast[p].stepExpr.type = "none" THEN 1 ELSE env["s"].v

\* Line p holds a FOR that is not nested in another FOR and whose counter no
\* other statement of the module assigns.
PlainFor(p) ==
    /\ ast[p].type = "ForStmt"
    /\ OpenForsAfter(p - 1) = <<>>
    /\ \A q \in 1 .. Len(ast) :
          q # p /\ ast[q].type = "ForStmt"
            => ast[q].counterExpr.name # ast[p].counterExpr.name

\* Line q holds an assignment directly in the body of the FOR on line p.
InBodyOf(q, p) ==
    /\ q > p
    /\ ast[q].type = "AssignStmt"
    /\ OpenForsAfter(q - 1) # <<>>
    /\ Last(OpenForsAfter(q - 1)) = p

\* The counter's values at the runs of the statements picked by Test.
CounterValuesAt(p, Test(_)) ==
    LET sel == SelectSeq(trace, Test)
    IN  [k \in 1 .. Len(sel) |-> sel[k].env[ast[p].counterExpr.name].v]

\* The guard of the FOR on line p let the body run.
GuardPassed(p, t) == t.loc = <<p, 0>> /\ t.op = "const" /\ t.to = t.pc + 1

\* C3: executing the lowered FOR c = a TO b [STEP s] ... NEXT, whose body does
\* not assign c, runs the body once for each of a, a+s, a+2s, ... that does not
\* pass b (comparisons reversed for s < 0), in that order, not at all when a is
\* already past b, and leaves c at the first value past b.
C3_ForRunsBodyOncePerValue ==
    phase = "halted" =>
        \A p \in 1 .. Len(ast) :
            PlainFor(p) =>
                LET a == localVars["a"].v
                    b == localVars["b"].v
                    st == StepOf(p, localVars)
                IN  /\ CounterValuesAt(p, LAMBDA t : GuardPassed(p, t))
                         = ForValues(a, b, st)
                    /\ \A q \in 1 .. Len(ast) :
                          InBodyOf(q, p) =>
                              CounterValuesAt(p, LAMBDA t : t.loc = <<q, 0>>)
                                 = ForValues(a, b, st)
                    /\ localVars[ast[p].counterExpr.name].v = ForFinalValue(a, b, st)

\* A FOR with a negative step has run its body, which holds an assignment and
\* a nested FOR, more than once.
C3_Witness ==
    /\ phase = "halted"
    /\ \E p, q, r \in 1 .. Len(ast) :
          /\ PlainFor(p) /\ InBodyOf(q, p)
          /\ ast[r].type = "ForStmt" /\ r > p /\ OpenForsAfter(r - 1) = <<p>>
          /\ StepOf(p, localVars) < 0
          /\ Len(ForValues(localVars["a"].v, localVars["b"].v,
                           StepOf(p, localVars))) > 1


-----------------------------------------------------------------------------
(* IF statements compiled and executed: the k-th arm tests the variable ck. *)

RunIfStmts ==
    { IfStmt([k \in 1 .. n |-> VarRefExpr("c" \o ToString(k))], e) :
        n \in 1 .. MaxIfArms, e \in BOOLEAN }

\* False is 0 and true is -1, as QBasic has them.
CondValues == {0, -1}

IfStartVars ==
    [ {"c" \o ToString(k) : k \in 1 .. MaxIfArms} -> {Num(x) : x \in CondValues} ]

NextIf ==
    \/ \E node \in RunIfStmts : visitIfStmt(node)
    \/ visitIfStmt_endBranch
    \/ visitIfStmt_endElse
    \/ visitAssignStmt(AssignStmt(VarRefExpr("x"), LiteralExpr(1)))
    \/ visitModule_endStmts
    \/ visitModule_return
    \/ executeModule(IfStartVars)
    \/ executeStep

InitIf == Start /\ budget = [stmts |-> MaxIfStmts, steps |-> MaxIfSteps]

SpecIf == InitIf /\ [][NextIf]_vars

-----------------------------------------------------------------------------
(* What an IF statement is to do, read from the source program. *)

\* The value of a source expression, given what the variables hold.
ValueOf(expr, env) ==
    IF expr.type = "Literal" THEN Num(expr.value) ELSE lookup(env, expr.name)

\* The statements that take a label stem from the generator.
TakesLabel(node) ==
    node.type \in {"IfStmt", "CondLoopStmt", "UncondLoopStmt", "ForStmt"}

\* The stem $N of the construct on line p: constructs are numbered from 1 in
\* source order.
StemOf(p) ==
    generateLabel(1 + Cardinality({ q \in 1 .. p - 1 : TakesLabel(ast[q]) }))

RECURSIVE Within(_, _)
\* Line q is line p or lies, at any depth, in the construct on line p.
Within(q, p) ==
    \/ q = p
    \/ ast[q].parent[1] # 0 /\ Within(ast[q].parent[1], p)

\* The first arm of the IF on line p whose condition is true, 0 if none is.
FirstTrueArm(p, env) ==
    LET hold == { k \in 1 .. Len(ast[p].condExprs) :
                    truthy(ValueOf(ast[p].condExprs[k], env)) }
    IN  IF hold = {} THEN 0 ELSE CHOOSE k \in hold : \A j \in hold : k <= j

\* The arm whose statements are to run: the first true one, else the ELSE arm.
ArmToRun(p, env) ==
    IF FirstTrueArm(p, env) # 0 THEN FirstTrueArm(p, env)
    ELSE Len(ast[p].condExprs) + 1

\* How often the statement on line q (for an IF: its first test) has run.
RunsOf(q) ==
    Cardinality({ i \in 1 .. Len(trace) :
        IF ast[q].type = "IfStmt"
        THEN trace[i].loc = <<q, 1>> /\ trace[i].op = "if"
        ELSE trace[i].loc = <<q, 0>> })

\* From position m the executor reaches label e passing labels only.
FallsTo(m, e) == m <= e /\ \A i \in m .. e : Stmts[i].type = "label"

\* The last statement run for the construct on line p.
LastRunWithin(p) ==
    LET is == { i \in 1 .. Len(trace) : Within(trace[i].loc[1], p) }
    IN  trace[CHOOSE i \in is : \A j \in is : j <= i]

\* The arms of the IF on line p whose conditions were evaluated, in order.
TestsRun(p) ==
    LET sel == SelectSeq(trace, LAMBDA t : t.loc[1] = p /\ t.op = "if")
    IN  [k \in 1 .. Len(sel) |-> sel[k].loc[2]]

\* C9: executing the lowered IF / ELSEIF / ELSE / END IF evaluates the
\* conditions in order up to the first true one and no further, runs the
\* statements of that arm only (of the ELSE arm when none is true, nothing
\* when there is no ELSE), and continues at the _endif label.
C9_IfRunsFirstTrueArm ==
    phase = "halted" =>
        \A p \in 1 .. Len(ast) :
            ast[p].type = "IfStmt" /\ RunsOf(p) > 0 =>
                LET k == FirstTrueArm(p, localVars)
                    n == Len(ast[p].condExprs)
                IN  /\ TestsRun(p) = [j \in 1 .. (IF k # 0 THEN k ELSE n) |-> j]
                    /\ \A q \in 1 .. Len(ast) :
                          ast[q].parent[1] = p =>
                              RunsOf(q) = IF ast[q].parent[2] = ArmToRun(p, localVars)
                                          THEN 1 ELSE 0
                    /\ FallsTo(LastRunWithin(p).to,
                               labelIndex(Stmts, StemOf(p) \o "_endif"))

\* An IF with two ELSEIF arms and an ELSE, whose first condition is false and
\* whose second and third are true, has run the statement of its second arm.
C9_Witness ==
    /\ phase = "halted"
    /\ \E p, q \in 1 .. Len(ast) :
          /\ ast[p].type = "IfStmt" /\ RunsOf(p) > 0
          /\ Len(ast[p].condExprs) = 3 /\ ast[p].hasElse
          /\ FirstTrueArm(p, localVars) = 2
          /\ truthy(ValueOf(ast[p].condExprs[3], localVars))
          /\ ast[q].parent = <<p, 2>> /\ RunsOf(q) = 1


-----------------------------------------------------------------------------
(* DO loops compiled and executed: the loops test the variable c, which the   *)
(* statements in them set.                                                    *)

RunCondLoopStmts ==
    { CondLoopStmt(st, neg, VarRefExpr("c")) :
        st \in {"COND_EXPR_BEFORE_STMTS", "COND_EXPR_AFTER_STMTS"},
        neg \in BOOLEAN }

LoopStartVars == [ {"c"} -> {Num(x) : x \in CondValues} ]

NextLoop ==
    \/ \E node \in RunCondLoopStmts : visitCondLoopStmt(node)
    \/ visitCondLoopStmt_end
    \/ \E x \in CondValues :
          visitAssignStmt(AssignStmt(VarRefExpr("c"), LiteralExpr(x)))
    \/ visitModule_endStmts
    \/ visitModule_return
    \/ executeModule(LoopStartVars)
    \/ executeStep

InitLoop == Start /\ budget = [stmts |-> MaxLoopStmts, steps |-> MaxLoopSteps]

SpecLoop == InitLoop /\ [][NextLoop]_vars

\* DO UNTIL / LOOP UNTIL is parsed with isCondNegated set, DO WHILE / LOOP WHILE
\* without.
IsUntil(node) == node.isCondNegated

\* The i-th statement run is the exit test of the conditional loop on line p.
IsLoopTest(i, p) ==
    /\ ast[p].type = "CondLoopStmt"
    /\ trace[i].loc = <<p, 0>>
    /\ trace[i].op = "if"

\* The exit test of the loop on line p holds: the condition is false for WHILE,
\* true for UNTIL.
ExitTestHolds(p, env) ==
    IF IsUntil(ast[p]) THEN truthy(ValueOf(ast[p].condExpr, env))
    ELSE ~truthy(ValueOf(ast[p].condExpr, env))

\* The i-th statement run went to the loopEnd label of the loop on line p.
LeftLoop(i, p) == trace[i].to = labelIndex(Stmts, StemOf(p) \o "_loopEnd")

\* The i-th statement run is in the body of the loop on line p.
InLoopBody(i, p) == trace[i].loc[1] # p /\ Within(trace[i].loc[1], p)

\* C10: in the lowered conditional loop a WHILE loop leaves through loopEnd
\* exactly when its condition is false and an UNTIL loop exactly when it is
\* true, and otherwise goes on; with the condition before the statements no
\* statement of the body runs when the exit test holds on entry, and with the
\* condition after them the body has run before every test.
C10_CondLoopExit ==
    phase \in {"exec", "halted"} =>
        \A i \in 1 .. Len(trace) : \A p \in 1 .. Len(ast) :
            IsLoopTest(i, p) =>
                /\ LeftLoop(i, p) <=> ExitTestHolds(p, trace[i].env)
                /\ ~LeftLoop(i, p) => trace[i].to = trace[i].pc + 1
                /\ ast[p].structure = "COND_EXPR_BEFORE_STMTS"
                     /\ (i = 1 \/ ~Within(trace[i - 1].loc[1], p))
                     /\ ExitTestHolds(p, trace[i].env)
                     /\ i < Len(trace)
                   => ~Within(trace[i + 1].loc[1], p)
                /\ ast[p].structure = "COND_EXPR_AFTER_STMTS"
                     /\ (\E q \in 1 .. Len(ast) : ast[q].parent[1] = p)
                   => i > 1 /\ InLoopBody(i - 1, p)

\* A DO WHILE loop stayed at its first test, ran its body and left at the
\* second test.
C10_Witness ==
    /\ phase = "halted"
    /\ \E i, j \in 1 .. Len(trace) : \E p \in 1 .. Len(ast) :
          /\ i < j /\ IsLoopTest(i, p) /\ IsLoopTest(j, p)
          /\ ~IsUntil(ast[p]) /\ ast[p].structure = "COND_EXPR_BEFORE_STMTS"
          /\ ~LeftLoop(i, p) /\ InLoopBody(i + 1, p) /\ LeftLoop(j, p)


-----------------------------------------------------------------------------
(* The generator's output and steps, as the claims speak of them. *)

\* The directives a runnable statement can return.
DirectivesOf(stmt) ==
    { IF stmt.run[i].op = "if" THEN stmt.run[i].then.directive
      ELSE stmt.run[i].directive :
        i \in { j \in 1 .. Len(stmt.run) : stmt.run[j].op \in {"if", "return"} } }

\* The labels the Goto, Gosub and Return directives of a statement list name.
LabelsReferenced(stmts) ==
    { d.destLabel :
        d \in { e \in UNION { DirectivesOf(stmts[i]) :
                       i \in { j \in 1 .. Len(stmts) : stmts[j].type = "run" } } :
                  e.type \in {"goto", "gosub", "return"} /\ e.destLabel # "" } }

\* The labels a statement list holds, in order.
LabelsEmitted(stmts) ==
    LET sel == SelectSeq(stmts, LAMBDA x : x.type = "label")
    IN  [i \in 1 .. Len(sel) |-> sel[i].label]

Range(f) == { f[x] : x \in DOMAIN f }

\* C1: every label a Goto, Gosub or Return-with-label directive names is the
\* label of a label statement emitted in the same statement list (the module's
\* or the proc's).
C1_ReferencedLabelsAreEmitted ==
    phase = "done" =>
        \A k \in 1 .. Len(compiled) :
            LabelsReferenced(compiled[k]) \subseteq Range(LabelsEmitted(compiled[k]))

\* C2: no label is emitted twice in the statement list of the module or of a
\* proc.
C2_NoLabelEmittedTwice ==
    phase = "done" =>
        \A k \in 1 .. Len(compiled) :
            LET ls == LabelsEmitted(compiled[k])
            IN  \A i, j \in 1 .. Len(ls) : i # j => ls[i] # ls[j]

\* This step visits a statement of the given type.
Visits(type) ==
    /\ Len(ast') = Len(ast) + 1
    /\ ast'[Len(ast')].type = type

\* The chunks this step adds to the block being generated.
NewChunks ==
    SubSeq(stack'[Len(stack)].chunks, Len(Top.chunks) + 1,
           Len(stack'[Len(stack)].chunks))

\* The goto statement a visit emits for the statement it visits.
IsGotoTo(stmt, label) ==
    /\ stmt.type = "run"
    /\ stmt.run = <<[op |-> "return",
                     directive |-> [type |-> "goto", destLabel |-> label]]>>

\* C4: a NEXT naming k counters (a bare NEXT: one) that is accepted closes the
\* k innermost open FORs, innermost first: its i-th counter is the counter of
\* the i-th FOR from the top of the stack, exactly k states are popped, and for
\* each, in pop order, the increment with the goto to its loopStart and then
\* its loopEnd label are emitted.
C4_NextClosesInnermostFirst ==
    [][ Visits("NextStmt") /\ phase' = "gen" =>
          LET node == ast'[Len(ast')]
              named == Len(node.counterExprs)
              k == IF named = 0 THEN 1 ELSE named
              n == Len(openForStmtStates)
              frame(i) == openForStmtStates[n - i + 1]
          IN  /\ k <= n
              /\ openForStmtStates' = SubSeq(openForStmtStates, 1, n - k)
              /\ \A i \in 1 .. named :
                    node.counterExprs[i].name = frame(i).forStmt.counterExpr.name
              /\ Len(NewChunks) = 3 * k
              /\ \A i \in 1 .. k :
                    LET incr == NewChunks[3 * i - 2] IN
                    /\ incr.type = "run"
                    /\ incr.run[1].op = "add"
                    /\ incr.run[1].target = accept(frame(i).forStmt.counterExpr)
                    /\ incr.run[2] = generateGotoCode(frame(i).startLabel)
                    /\ NewChunks[3 * i - 1] = generateLabelStmt(frame(i).endLabel)
      ]_vars

\* A NEXT naming two counters has closed two FORs with different counters.
C4_Witness ==
    /\ phase = "gen"
    /\ ast # <<>>
    /\ Last(ast).type = "NextStmt"
    /\ Len(Last(ast).counterExprs) = 2
    /\ Last(ast).counterExprs[1] # Last(ast).counterExprs[2]

\* This step is the end of the module's or of a proc's statement list.
ListExhausted ==
    /\ Generating
    /\ Top.kind \in {"module", "proc"}
    /\ ast' = ast
    /\ phase' # phase \/ stack' # stack

\* C5: when the statement list of the module or of a proc is exhausted and a
\* FOR in it has no NEXT, generation fails with a CodegenError; and when
\* generation of a module completes, the open-FOR stack and the open-loop
\* stack are empty.
C5_UnclosedForFails ==
    /\ [](phase = "done" => openForStmtStates = <<>> /\ openLoopStmtStates = <<>>)
    /\ [][ ListExhausted /\ OpenForsAfter(Len(ast)) # <<>> =>
              phase' = "failed" /\ error' = ForWithoutNext ]_vars

\* In a proc, a FOR was left without a NEXT and generation has failed.
C5_Witness ==
    /\ phase = "failed"
    /\ error = ForWithoutNext
    /\ stack # <<>> /\ Top.kind = "proc"
    /\ Len(stack) = 1
    /\ OpenForsAfter(Len(ast)) # <<>>

\* The NEXT names more counters than FORs are open, or one of its counters
\* reads differently from the counter of the FOR it stands for.
NextMismatch(node, states) ==
    \/ Len(node.counterExprs) > Len(states)
    \/ \E i \in 1 .. Len(node.counterExprs) :
          /\ i <= Len(states)
          /\ toString(accept(node.counterExprs[i]))
               # toString(accept(states[Len(states) - i + 1].forStmt.counterExpr))

\* C6: a NEXT one of whose counters reads differently from the counter of the
\* open FOR it stands for, or that names more counters than FORs are open,
\* raises a CodegenError and leaves the open-FOR stack as it was.
C6_MismatchedNextFails ==
    [][ Visits("NextStmt") /\ NextMismatch(ast'[Len(ast')], openForStmtStates) =>
          /\ phase' = "failed"
          /\ error' # ""
          /\ openForStmtStates' = openForStmtStates
      ]_vars

\* A NEXT naming two counters, the first right and the second wrong, has
\* failed with two FORs open.
C6_Witness ==
    /\ phase = "failed"
    /\ ast # <<>>
    /\ Last(ast).type = "NextStmt"
    /\ Len(Last(ast).counterExprs) = 2
    /\ Len(openForStmtStates) = 2
    /\ Last(ast).counterExprs[1] = openForStmtStates[2].forStmt.counterExpr
    /\ Last(ast).counterExprs[2] # openForStmtStates[1].forStmt.counterExpr

\* C7: EXIT FOR with no FOR open raises a CodegenError; otherwise it emits one
\* goto to the loopEnd label of the innermost FOR open at that point, however
\* many DO loops lie between.
C7_ExitForLeavesInnermostFor ==
    [][ Visits("ExitForStmt") =>
          LET open == OpenForsAfter(Len(ast)) IN
          IF open = <<>>
          THEN phase' = "failed" /\ error' = "EXIT FOR statement outside FOR loop"
          ELSE /\ phase' = "gen"
               /\ Len(NewChunks) = 1
               /\ IsGotoTo(NewChunks[1], StemOf(Last(open)) \o "_loopEnd")
      ]_vars

\* An EXIT FOR in a DO loop in a FOR has been generated.
C7_Witness ==
    /\ phase = "gen"
    /\ ast # <<>>
    /\ Last(ast).type = "ExitForStmt"
    /\ Len(openForStmtStates) = 1
    /\ Len(openLoopStmtStates) = 1
    /\ openLoopStmtStates[1].loopStmt.loc[1] > openForStmtStates[1].forStmt.loc[1]

LoopTypes == {"CondLoopStmt", "UncondLoopStmt"}

RECURSIVE EnclosingLoop(_)
\* The line of the innermost DO loop around the block that line p opens (p
\* itself if it is a loop), 0 if there is none.
EnclosingLoop(p) ==
    IF p = 0 THEN 0
    ELSE IF ast'[p].type \in LoopTypes THEN p
    ELSE EnclosingLoop(ast'[p].parent[1])

\* The loops whose statements are being generated, outermost first.
LoopsBeingGenerated ==
    LET fs == SelectSeq(stack, LAMBDA f : f.kind \in {"condLoop", "uncondLoop"})
    IN  [i \in 1 .. Len(fs) |-> StemOf(fs[i].line) \o "_loopEnd"]

\* C8: EXIT DO outside every DO loop raises a CodegenError; otherwise it emits
\* a goto to the loopEnd label of the innermost DO loop around it; and the
\* open-loop stack holds a loop exactly while the loop's statements are being
\* generated.
C8_ExitDoLeavesInnermostLoop ==
    /\ [][ Visits("ExitLoopStmt") =>
             LET loop == EnclosingLoop(ast'[Len(ast')].parent[1]) IN
             IF loop = 0
             THEN phase' = "failed" /\ error' = "EXIT DO statement outside DO loop"
             ELSE /\ phase' = "gen"
                  /\ Len(NewChunks) = 1
                  /\ IsGotoTo(NewChunks[1], StemOf(loop) \o "_loopEnd")
         ]_vars
    /\ [](phase = "gen" =>
             [i \in 1 .. Len(openLoopStmtStates) |-> openLoopStmtStates[i].endLabel]
                = LoopsBeingGenerated)

\* An EXIT DO has been generated in the inner of two DO loops, after a DO loop
\* that has ended.
C8_Witness ==
    /\ phase = "gen"
    /\ Len(ast) > 2
    /\ Last(ast).type = "ExitLoopStmt"
    /\ Len(openLoopStmtStates) = 1
    /\ ast[1].type \in LoopTypes
    /\ Last(ast).parent[1] # 1
    /\ Last(ast).parent[1] # 0

-----------------------------------------------------------------------------
(* The runtime library (src/src/runtime/runtime.ts): what compiled code calls. *)

\* Runtime.print(...args).
print(args) ==
    /\ Len(printed) < MaxPrinted
    /\ LET r == printLoop(args, "", <<>>)
           line == IF endsLine(args) THEN r.line \o "\n" ELSE r.line
       IN  /\ pendingCall' = [fn |-> "print", args |-> args, threw |-> r.threw,
                              pieces |-> r.pieces]
           /\ printed' = IF r.threw THEN printed ELSE platformPrint(printed, line)
    /\ UNCHANGED <<genVars, execVars, analyzerVars>>

\* The arguments PRINT statements hand to print.
PrintArgs ==
    { Semicolon, Comma, Value(JsString("abcdefghijklmn")), Value(Num(5)),
      Value(Undefined) }

PrintArgLists ==
    UNION { [1 .. n -> PrintArgs] : n \in 0 .. MaxPrintArgs }

NextPrint == \E args \in PrintArgLists : print(args)

SpecPrint == Init /\ [][NextPrint]_vars

RECURSIVE Concat(_)
\* The strings of a list, joined.
Concat(ss) == IF ss = <<>> THEN "" ELSE Head(ss) \o Concat(Tail(ss))

\* A print call has returned.
Printed == pendingCall.fn = "print" /\ ~pendingCall.threw

\* C13: print ends the line it prints with a newline exactly when it has no
\* argument or its last argument is a Value; after a last Comma or Semicolon
\* nothing follows what the arguments added.
C13_PrintNewline ==
    Printed =>
        LET args == pendingCall.args
            body == Concat(pendingCall.pieces)
            line == printed[Len(printed)]
        IN  IF args = <<>> \/ args[Len(args)].type = "VALUE"
            THEN line = body \o "\n"
            ELSE line = body

\* A print of a Value, a further argument and a last Comma has printed two
\* full zones and no newline.
C13_Witness ==
    /\ Printed
    /\ Len(pendingCall.args) = 3
    /\ pendingCall.args[3] = Comma
    /\ pendingCall.args[1].type = "VALUE"
    /\ Len(printed[Len(printed)]) = PRINT_ZONE_LENGTH * 2

\* C14: a Comma adds between 1 and 14 spaces, and the line with them is as
\* long as the smallest multiple of 14 greater than its length before.
C14_CommaAdvancesToNextZone ==
    Printed =>
        \A i \in 1 .. Len(pendingCall.args) :
            pendingCall.args[i].type = "COMMA" =>
                LET before == Len(Concat(SubSeq(pendingCall.pieces, 1, i - 1)))
                    pad == pendingCall.pieces[i]
                    after == before + Len(pad)
                IN  /\ Len(pad) \in 1 .. 14
                    /\ pad = repeat(" ", Len(pad))
                    /\ after % 14 = 0
                    /\ after > before
                    /\ after - 14 <= before

\* A Comma met a line of 3 characters, and the next Comma the line of 14 that
\* the first one left.
C14_Witness ==
    /\ Printed
    /\ Len(pendingCall.args) = 3
    /\ pendingCall.args[2] = Comma
    /\ pendingCall.args[3] = Comma
    /\ Len(pendingCall.pieces[1]) = 3
    /\ Len(pendingCall.pieces[2]) = 11
    /\ Len(pendingCall.pieces[3]) = 14

-----------------------------------------------------------------------------
(* Runtime.input.  A line is a sequence of characters, so that the lexer and  *)
(* parseFloat work on it as the code does.                                    *)

\* The type specs of lib/types.
integerSpec == [type |-> "integer"]
longSpec == [type |-> "long"]
singleSpec == [type |-> "single"]
doubleSpec == [type |-> "double"]
stringSpec == [type |-> "string"]
isNumeric(t) == t.type \in {"integer", "long", "single", "double"}
isString(t) == t.type = "string"

\* /\s/
isWhitespace(c) == c \in {" ", "\t"}

RECURSIVE trimStart(_)
trimStart(chars) ==
    IF chars # <<>> /\ isWhitespace(Head(chars)) THEN trimStart(Tail(chars))
    ELSE chars

RECURSIVE trimEnd(_)
trimEnd(chars) ==
    IF chars # <<>> /\ isWhitespace(chars[Len(chars)])
    THEN trimEnd(SubSeq(chars, 1, Len(chars) - 1))
    ELSE chars

\* String.prototype.trim.
trim(chars) == trimEnd(trimStart(chars))

\* The length of the longest prefix of chars whose characters all satisfy Test.
prefixLen(chars, Test(_)) ==
    IF \A i \in 1 .. Len(chars) : Test(chars[i]) THEN Len(chars)
    ELSE (CHOOSE i \in 1 .. Len(chars) :
            ~Test(chars[i]) /\ \A j \in 1 .. i - 1 : Test(chars[j])) - 1

\* The token the input lexer finds at the head of chars, its rules tried in
\* order: WHITESPACE /\s+/, QUOTED_STRING /"[^"]*"/ (a STRING without its
\* quotes), COMMA, STRING /[^,\s]+/.
inputLexerNext(chars) ==
    LET notQuote(c) == c # "\""
        inString(c) == c # "," /\ ~isWhitespace(c)
        quoted == prefixLen(Tail(chars), notQuote)
    IN  IF isWhitespace(Head(chars))
        THEN [type |-> "WHITESPACE", length |-> prefixLen(chars, isWhitespace),
              value |-> SubSeq(chars, 1, prefixLen(chars, isWhitespace))]
        ELSE IF Head(chars) = "\"" /\ quoted < Len(chars) - 1
        THEN [type |-> "STRING", length |-> quoted + 2,
              value |-> SubSeq(chars, 2, quoted + 1)]
        ELSE IF Head(chars) = ","
        THEN [type |-> "COMMA", length |-> 1, value |-> <<",">>]
        ELSE [type |-> "STRING", length |-> prefixLen(chars, inString),
              value |-> SubSeq(chars, 1, prefixLen(chars, inString))]

RECURSIVE inputLexer(_)
\* The tokens of chars.
inputLexer(chars) ==
    IF chars = <<>> THEN <<>>
    ELSE LET token == inputLexerNext(chars)
         IN  <<[type |-> token.type, value |-> token.value]>>
               \o inputLexer(SubSeq(chars, token.length + 1, Len(chars)))

\* Runtime.lexInput: the tokens of the trimmed line that are not whitespace.
lexInput(line) ==
    SelectSeq(inputLexer(trim(line)), LAMBDA token : token.type # "WHITESPACE")

\* The decimal digits.
isDigit(c) == c \in { ToString(d) : d \in 0 .. 9 }
digitValue(c) == CHOOSE d \in 0 .. 9 : ToString(d) = c

RECURSIVE decimalValue(_, _)
\* The number a run of digits writes.
decimalValue(digits, acc) ==
    IF digits = <<>> THEN acc
    ELSE decimalValue(Tail(digits), 10 * acc + digitValue(Head(digits)))

\* parseFloat on a string of digits, signs and other characters: the integer
\* its longest numeric prefix writes, NaN if it has none.
parseFloat(chars) ==
    LET text == trimStart(chars)
        signed == text # <<>> /\ Head(text) \in {"-", "+"}
        body == IF signed THEN Tail(text) ELSE text
        digits == SubSeq(body, 1, prefixLen(body, isDigit))
    IN  IF digits = <<>> THEN NaN
        ELSE IF signed /\ Head(text) = "-" THEN Num(0 - decimalValue(digits, 0))
        ELSE Num(decimalValue(digits, 0))

RECURSIVE inputLoop(_, _, _, _, _)
\* The loop of input over the requested types: the values parsed before the
\* first error, and the error.  tokenIdx and resultIdx count from 0.
inputLoop(tokens, tokenIdx, resultTypes, resultIdx, results) ==
    IF resultIdx >= Len(resultTypes)
    THEN [threw |-> FALSE, results |-> results, errorMessage |-> ""]
    ELSE
    LET resultType == resultTypes[resultIdx + 1]
        errorMessagePrefix == "Error parsing value " \o ToString(resultIdx + 1) \o ": "
        commaFound == tokenIdx < Len(tokens) /\ tokens[tokenIdx + 1].type = "COMMA"
        valueIdx == IF resultIdx > 0 THEN tokenIdx + 1 ELSE tokenIdx
        stop(message) ==
            [threw |-> FALSE, results |-> results,
             errorMessage |-> errorMessagePrefix \o message]
    IN  IF resultIdx > 0 /\ ~commaFound THEN stop("Comma expected")
        ELSE IF valueIdx < Len(tokens) /\ tokens[valueIdx + 1].type = "STRING"
        THEN LET tokenValue == tokens[valueIdx + 1].value IN
             IF isString(resultType)
             THEN inputLoop(tokens, valueIdx + 1, resultTypes, resultIdx + 1,
                            Append(results, JsString(Concat(tokenValue))))
             ELSE IF isNumeric(resultType)
             THEN IF isNaN(parseFloat(tokenValue))
                  THEN stop("Invalid numeric value \"" \o Concat(tokenValue) \o "\"")
                  ELSE inputLoop(tokens, valueIdx + 1, resultTypes, resultIdx + 1,
                                 Append(results, parseFloat(tokenValue)))
             ELSE [threw |-> TRUE, results |-> results, errorMessage |-> ""]
        ELSE stop("No value provided")

\* A turn of the loop that goes on with the values of the turn before.
freshResults_keeps(previous) == previous

\* const results = [] at the head of each turn of the loop.
freshResults(previous) == <<>>

\* Runtime.input(prompt, ...resultTypes), up to its first await of a line.
input(prompt, resultTypes) ==
    /\ pendingCall.fn = "none"
    /\ pendingCall' = [fn |-> "input", prompt |-> prompt,
                       resultTypes |-> resultTypes, state |-> "reading",
                       lines |-> <<>>, results |-> <<>>, errorMessage |-> ""]
    /\ printed' = platformPrint(printed, prompt)
    /\ UNCHANGED <<genVars, execVars, analyzerVars>>

\* Runtime.input, from the line platform.inputLine() delivers to the return or
\* to the next await.
input_inputLine(line) ==
    /\ pendingCall.fn = "input"
    /\ pendingCall.state = "reading"
    /\ Len(pendingCall.lines) < MaxInputLines
    /\ LET resultTypes == pendingCall.resultTypes
           r == inputLoop(lexInput(line), 0, resultTypes, 0,
                          freshResults(pendingCall.results))
           read == [pendingCall EXCEPT !.lines = Append(@, line),
                                       !.results = r.results,
                                       !.errorMessage = r.errorMessage]
       IN  IF r.threw \/ Len(r.results) > Len(resultTypes)
           THEN /\ pendingCall' = [read EXCEPT !.state = "threw"]
                /\ UNCHANGED printed
           ELSE IF Len(r.results) = Len(resultTypes)
           THEN /\ pendingCall' = [read EXCEPT !.state = "returned"]
                /\ UNCHANGED printed
           ELSE /\ pendingCall' = read
                /\ printed' =
                     platformPrint(
                        platformPrint(printed,
                            "\n" \o (IF r.errorMessage # ""
                                     THEN r.errorMessage \o "\n" ELSE "")
                                 \o "Redo from start\n"),
                        pendingCall.prompt)
    /\ UNCHANGED <<genVars, execVars, analyzerVars>>

\* The characters a user types, the lines made of them.
InputChars == {" ", ",", "\"", "1", "a"}
InputLines == UNION { [1 .. n -> InputChars] : n \in 0 .. MaxLineLen }

\* The types INPUT asks for: one per target.
InputTypeLists ==
    UNION { [1 .. n -> {singleSpec, stringSpec}] : n \in 1 .. MaxInputTypes }

NextInput ==
    \/ \E resultTypes \in InputTypeLists : input("? ", resultTypes)
    \/ \E line \in InputLines : input_inputLine(line)

SpecInput == Init /\ [][NextInput]_vars

\* input has returned its results.
InputReturned == pendingCall.fn = "input" /\ pendingCall.state = "returned"

\* C11: input returns a list of exactly as many values as types were asked
\* for, the i-th a string for a String type and a number for a numeric type,
\* and each the i-th field of the last line read: nothing of a line rejected
\* before is in it.
C11_InputReturnsOneLine ==
    InputReturned =>
        LET types == pendingCall.resultTypes
            results == pendingCall.results
            tokens == lexInput(pendingCall.lines[Len(pendingCall.lines)])
        IN  /\ Len(results) = Len(types)
            /\ Len(tokens) >= 2 * Len(types) - 1
            /\ \A i \in 1 .. Len(types) :
                  /\ tokens[2 * i - 1].type = "STRING"
                  /\ isString(types[i]) =>
                        /\ results[i].t = "string"
                        /\ results[i].v = Concat(tokens[2 * i - 1].value)
                  /\ isNumeric(types[i]) =>
                        /\ results[i].t = "number"
                        /\ results[i] = parseFloat(tokens[2 * i - 1].value)

\* input has returned two values from its second line, its first line having
\* been rejected at the second value.
C11_Witness ==
    /\ InputReturned
    /\ Len(pendingCall.resultTypes) = 2
    /\ Len(pendingCall.lines) = 2
    /\ lexInput(pendingCall.lines[1]) # <<>>
    /\ lexInput(pendingCall.lines[1])[1].type = "STRING"
    /\ isString(pendingCall.resultTypes[1])

\* The line holds exactly one field per type, commas between them, and every
\* numeric field parses.
LineAnswers(line, types) ==
    LET tokens == lexInput(line) IN
    /\ Len(tokens) = 2 * Len(types) - 1
    /\ \A i \in 1 .. Len(tokens) :
          tokens[i].type = (IF i % 2 = 1 THEN "STRING" ELSE "COMMA")
    /\ \A i \in 1 .. Len(types) :
          isNumeric(types[i]) => ~isNaN(parseFloat(tokens[2 * i - 1].value))

\* C12: on a line with a parse error or with fewer or more fields than types
\* were asked for, input prints 'Redo from start', prints the prompt again and
\* reads another line, and does not return.
C12_BadLineIsRedone ==
    [][ ( /\ pendingCall.fn = "input"
          /\ pendingCall.state = "reading"
          /\ pendingCall'.lines # pendingCall.lines
          /\ ~LineAnswers(pendingCall'.lines[Len(pendingCall'.lines)],
                          pendingCall.resultTypes) )
        => /\ pendingCall'.state = "reading"
           /\ Len(printed') = Len(printed) + 2
           /\ printed'[Len(printed')] = pendingCall.prompt
           /\ printed'[Len(printed) + 1]
                = "\n" \o (IF pendingCall'.errorMessage # ""
                           THEN pendingCall'.errorMessage \o "\n" ELSE "")
                       \o "Redo from start\n"
      ]_vars

-----------------------------------------------------------------------------
(* The built-in functions and their lookup. *)

\* arraySpec of lib/types.
arraySpec(elementTypeSpec, dimensionSpecs) ==
    [type |-> "array", elementTypeSpec |-> elementTypeSpec,
     dimensionSpecs |-> dimensionSpecs]
isArray(t) == t.type = "array"
areMatchingElementaryTypes(a, b) ==
    \/ isNumeric(a) /\ isNumeric(b)
    \/ isString(a) /\ isString(b)

\* String.prototype.toLowerCase on the names the calls below use.
toLowerCase(name) ==
    CASE name = "LBOUND" -> "lbound"
      [] name = "UBound" -> "ubound"
      [] name = "Len" -> "len"
      [] name = "INSTR" -> "instr"
      [] name = "X" -> "x"
      [] OTHER -> name

\* lookupSymbols of lib/symbol-table: the entries named name, whatever the case.
lookupSymbols(table, name) ==
    SelectSeq(table, LAMBDA e : toLowerCase(e.name) = toLowerCase(name))

BuiltinFn(name, paramTypeSpecs, returnTypeSpec, run) ==
    [name |-> name, paramTypeSpecs |-> paramTypeSpecs,
     returnTypeSpec |-> returnTypeSpec, run |-> run]

\* A registry with a second LEN of a string.
BUILTIN_FNS_twoLens ==
    << BuiltinFn("chr$", <<longSpec>>, stringSpec, "chr$"),
       BuiltinFn("instr", <<stringSpec, stringSpec>>, integerSpec, "instr/2"),
       BuiltinFn("instr", <<longSpec, stringSpec, stringSpec>>, integerSpec, "instr/3"),
       BuiltinFn("lbound", <<arraySpec(doubleSpec, <<>>)>>, longSpec, "lbound/1"),
       BuiltinFn("lbound", <<arraySpec(doubleSpec, <<>>), longSpec>>, longSpec, "lbound/2"),
       BuiltinFn("lcase$", <<stringSpec>>, stringSpec, "lcase$"),
       BuiltinFn("left$", <<stringSpec, longSpec>>, stringSpec, "left$"),
       BuiltinFn("len", <<stringSpec>>, longSpec, "len"),
       BuiltinFn("mid$", <<stringSpec, longSpec, longSpec>>, stringSpec, "mid$"),
       BuiltinFn("right$", <<stringSpec, longSpec>>, stringSpec, "right$"),
       BuiltinFn("str$", <<doubleSpec>>, stringSpec, "str$"),
       BuiltinFn("val", <<stringSpec>>, doubleSpec, "val"),
       BuiltinFn("ubound", <<arraySpec(doubleSpec, <<>>)>>, longSpec, "ubound/1"),
       BuiltinFn("ubound", <<arraySpec(doubleSpec, <<>>), longSpec>>, longSpec, "ubound/2"),
       BuiltinFn("ucase$", <<stringSpec>>, stringSpec, "ucase$"),
       BuiltinFn("len", <<stringSpec>>, integerSpec, "len%") >>

\* The registry, in its order.
BUILTIN_FNS ==
    << BuiltinFn("chr$", <<longSpec>>, stringSpec, "chr$"),
       BuiltinFn("instr", <<stringSpec, stringSpec>>, integerSpec, "instr/2"),
       BuiltinFn("instr", <<longSpec, stringSpec, stringSpec>>, integerSpec, "instr/3"),
       BuiltinFn("lbound", <<arraySpec(doubleSpec, <<>>)>>, longSpec, "lbound/1"),
       BuiltinFn("lbound", <<arraySpec(doubleSpec, <<>>), longSpec>>, longSpec, "lbound/2"),
       BuiltinFn("lcase$", <<stringSpec>>, stringSpec, "lcase$"),
       BuiltinFn("left$", <<stringSpec, longSpec>>, stringSpec, "left$"),
       BuiltinFn("len", <<stringSpec>>, longSpec, "len"),
       BuiltinFn("mid$", <<stringSpec, longSpec, longSpec>>, stringSpec, "mid$"),
       BuiltinFn("right$", <<stringSpec, longSpec>>, stringSpec, "right$"),
       BuiltinFn("str$", <<doubleSpec>>, stringSpec, "str$"),
       BuiltinFn("val", <<stringSpec>>, doubleSpec, "val"),
       BuiltinFn("ubound", <<arraySpec(doubleSpec, <<>>)>>, longSpec, "ubound/1"),
       BuiltinFn("ubound", <<arraySpec(doubleSpec, <<>>), longSpec>>, longSpec, "ubound/2"),
       BuiltinFn("ucase$", <<stringSpec>>, stringSpec, "ucase$") >>

null == [null |-> TRUE]

\* A match that knows the elementary types only.
paramsMatch_elementaryOnly(paramTypeSpecs, argTypeSpecs) ==
    /\ Len(paramTypeSpecs) = Len(argTypeSpecs)
    /\ \A i \in 1 .. Len(paramTypeSpecs) :
          areMatchingElementaryTypes(paramTypeSpecs[i], argTypeSpecs[i])

\* The test of builtinFnsMatchingName.find(...).
paramsMatch(paramTypeSpecs, argTypeSpecs) ==
    /\ Len(paramTypeSpecs) = Len(argTypeSpecs)
    /\ \A i \in 1 .. Len(paramTypeSpecs) :
          \/ areMatchingElementaryTypes(paramTypeSpecs[i], argTypeSpecs[i])
          \/ isArray(paramTypeSpecs[i]) /\ isArray(argTypeSpecs[i])

\* Array.prototype.find.
find(entries, Test(_)) ==
    LET found == SelectSeq(entries, Test)
    IN  IF found = <<>> THEN null ELSE found[1]

lookupBuiltinFn(name, argTypeSpecs, shouldReturnIfArgTypeMismatch) ==
    LET builtinFnsMatchingName == lookupSymbols(BUILTIN_FNS, name)
        builtinFn == find(builtinFnsMatchingName,
                          LAMBDA e : paramsMatch(e.paramTypeSpecs, argTypeSpecs))
    IN  IF builtinFn # null THEN builtinFn
        ELSE IF shouldReturnIfArgTypeMismatch /\ Len(builtinFnsMatchingName) > 0
        THEN builtinFnsMatchingName[1]
        ELSE null

\* A call of lookupBuiltinFn, by the compiler or by the runtime.  The function
\* keeps nothing from one call to the next: a behaviour follows one call.
lookupBuiltinFn_call(name, argTypeSpecs, shouldReturnIfArgTypeMismatch) ==
    /\ pendingCall.fn = "none"
    /\ pendingCall' =
          [fn |-> "lookupBuiltinFn", name |-> name, argTypeSpecs |-> argTypeSpecs,
           shouldReturnIfArgTypeMismatch |-> shouldReturnIfArgTypeMismatch,
           result |-> lookupBuiltinFn(name, argTypeSpecs,
                                      shouldReturnIfArgTypeMismatch)]
    /\ UNCHANGED <<genVars, execVars, analyzerVars, printed>>

\* A QbArray, as far as the built-in functions read it.
QbArray(typeSpec) == [t |-> "array", typeSpec |-> typeSpec]

returned(x) == [threw |-> FALSE, value |-> x]
thrown == [threw |-> TRUE, value |-> Undefined]

\* The place of the dimension after the one asked for.
dimensionSpecIdx_unshifted(dimensionIdx) == dimensionIdx

\* The place in dimensionSpecs, counted from 0, of dimension dimensionIdx.
dimensionSpecIdx(dimensionIdx) == dimensionIdx - 1

\* dimensionSpecs[idx][i], both counted from 0: outside the array
\* dimensionSpecs[idx] is undefined and reading [i] of it a TypeError.
boundOf(dimensionSpecs, idx, i) ==
    IF idx \in 0 .. Len(dimensionSpecs) - 1
    THEN returned(Num(dimensionSpecs[idx + 1][i + 1]))
    ELSE thrown

\* The run functions of lbound and ubound with a dimension index.
boundWithIndex(array, dimensionIdx, i) ==
    IF dimensionIdx.v < 1 \/ dimensionIdx.v > Len(array.typeSpec.dimensionSpecs)
    THEN thrown
    ELSE boundOf(array.typeSpec.dimensionSpecs, dimensionSpecIdx(dimensionIdx.v), i)

\* builtinFn.run(...args), for the built-in functions the calls below reach.
runBuiltinFn(run, args) ==
    CASE run = "lbound/1" -> boundOf(args[1].typeSpec.dimensionSpecs, 0, 0)
      [] run = "lbound/2" -> boundWithIndex(args[1], args[2], 0)
      [] run = "ubound/1" -> boundOf(args[1].typeSpec.dimensionSpecs, 0, 1)
      [] run = "ubound/2" -> boundWithIndex(args[1], args[2], 1)
      [] run = "len" -> returned(Num(Len(args[1].v)))
      [] run = "str$" ->
            returned(JsString((IF args[1].v >= 0 THEN " " ELSE "")
                                \o ToString(args[1].v)))

\* A Ptr of compiled code: an object and the key of the value in it.
Ptr(x) == <<[value |-> x], "value">>
deref(ptr) == ptr[1][ptr[2]]

\* Runtime.executeBuiltinFn(name, argTypeSpecs, ...args).
executeBuiltinFn(name, argTypeSpecs, args) ==
    /\ pendingCall.fn = "none"
    /\ LET builtinFn == lookupBuiltinFn(name, argTypeSpecs, FALSE)
           r == IF builtinFn = null THEN thrown
                ELSE runBuiltinFn(builtinFn.run,
                                  [i \in 1 .. Len(args) |-> deref(args[i])])
       IN  pendingCall' =
              [fn |-> "executeBuiltinFn", name |-> name,
               argTypeSpecs |-> argTypeSpecs, args |-> args,
               threw |-> r.threw, result |-> r.value]
    /\ UNCHANGED <<genVars, execVars, analyzerVars, printed>>

\* The names and argument types of the lookups.
LookupNames ==
    { "lbound", "LBOUND", "UBound", "instr", "INSTR", "Len", "str$", "nosuch",
      "chr$", "lcase$", "left$", "len", "mid$", "right$", "val", "ubound", "ucase$" }
LookupArgTypeSpecs ==
    {integerSpec, stringSpec, arraySpec(stringSpec, <<<<1, 3>>>>)}
LookupArgTypeSpecLists ==
    UNION { [1 .. n -> LookupArgTypeSpecs] : n \in 0 .. MaxArgs }

\* The arrays of the calls of LBOUND and UBOUND, and the dimensions asked for.
DimensionSpecs == {<<0, 4>>, <<1, 3>>, <<-3, -1>>}
ArrayTypeSpecs ==
    { arraySpec(stringSpec, dims) :
        dims \in UNION { [1 .. n -> DimensionSpecs] : n \in 1 .. MaxDims } }
DimensionIdxs == -1 .. MaxDims + 1

NextBuiltin ==
    \/ \E name \in LookupNames, argTypeSpecs \in LookupArgTypeSpecLists,
          flag \in BOOLEAN :
          lookupBuiltinFn_call(name, argTypeSpecs, flag)
    \/ \E name \in {"lbound", "LBOUND", "ubound", "UBound"},
          typeSpec \in ArrayTypeSpecs :
          \/ executeBuiltinFn(name, <<typeSpec>>, <<Ptr(QbArray(typeSpec))>>)
          \/ \E d \in DimensionIdxs, dType \in {integerSpec, singleSpec} :
                executeBuiltinFn(name, <<typeSpec, dType>>,
                                 <<Ptr(QbArray(typeSpec)), Ptr(Num(d))>>)
    \/ \E name \in {"Len", "str$"} :
          \/ executeBuiltinFn(name, <<stringSpec>>, <<Ptr(JsString("abc"))>>)
          \/ executeBuiltinFn(name, <<singleSpec>>, <<Ptr(Num(5))>>)

SpecBuiltin == Init /\ [][NextBuiltin]_vars

\* The parameter and the argument are both numeric, both strings or both arrays.
SameKind(a, b) ==
    \/ a.type \in {"integer", "long", "single", "double"}
         /\ b.type \in {"integer", "long", "single", "double"}
    \/ a.type = "string" /\ b.type = "string"
    \/ a.type = "array" /\ b.type = "array"

\* The places in the registry of the entries that fit the name and the
\* argument types.
Fitting(name, argTypeSpecs) ==
    { k \in 1 .. Len(BUILTIN_FNS) :
        /\ toLowerCase(BUILTIN_FNS[k].name) = toLowerCase(name)
        /\ Len(BUILTIN_FNS[k].paramTypeSpecs) = Len(argTypeSpecs)
        /\ \A i \in 1 .. Len(argTypeSpecs) :
              SameKind(BUILTIN_FNS[k].paramTypeSpecs[i], argTypeSpecs[i]) }

\* C15: without the mismatch flag, lookupBuiltinFn returns the first entry of
\* the registry whose name is the name asked for, whatever the case, that has
\* as many parameters as there are arguments, each of the kind of its
\* argument (numeric, string, array); null when there is no such entry.
C15_LookupBuiltinFn ==
    (pendingCall.fn = "lookupBuiltinFn"
       /\ ~pendingCall.shouldReturnIfArgTypeMismatch) =>
        LET fitting == Fitting(pendingCall.name, pendingCall.argTypeSpecs)
        IN  IF fitting = {} THEN pendingCall.result = null
            ELSE pendingCall.result
                   = BUILTIN_FNS[CHOOSE k \in fitting : \A j \in fitting : k <= j]

\* LBOUND written in capitals with an array and a number has been looked up
\* and found.
C15_Witness ==
    /\ pendingCall.fn = "lookupBuiltinFn"
    /\ ~pendingCall.shouldReturnIfArgTypeMismatch
    /\ pendingCall.name = "LBOUND"
    /\ Len(pendingCall.argTypeSpecs) = 2
    /\ pendingCall.result # null
    /\ pendingCall.result.run = "lbound/2"

\* The entries of the registry that satisfy the condition of lookupBuiltinFn.
Matching(name, argTypeSpecs) ==
    { k \in 1 .. Len(BUILTIN_FNS) :
        /\ toLowerCase(BUILTIN_FNS[k].name) = toLowerCase(name)
        /\ paramsMatch(BUILTIN_FNS[k].paramTypeSpecs, argTypeSpecs) }

\* What the lookup returns on the registry in the opposite order.
ReverseLookup(name, argTypeSpecs, shouldReturnIfArgTypeMismatch) ==
    LET registry == [k \in 1 .. Len(BUILTIN_FNS) |->
                        BUILTIN_FNS[Len(BUILTIN_FNS) + 1 - k]]
        byName == lookupSymbols(registry, name)
        matching == SelectSeq(byName,
                              LAMBDA e : paramsMatch(e.paramTypeSpecs, argTypeSpecs))
    IN  IF matching # <<>> THEN matching[1]
        ELSE IF shouldReturnIfArgTypeMismatch /\ byName # <<>> THEN byName[1]
        ELSE null

\* C29 as stated: for every name and every list of argument types at most
\* one entry of the registry satisfies the matching condition of
\* lookupBuiltinFn, and what lookupBuiltinFn returns does not depend on the
\* order of the registry.
C29_OrderIndependent ==
    pendingCall.fn = "lookupBuiltinFn" =>
        /\ Cardinality(Matching(pendingCall.name, pendingCall.argTypeSpecs)) <= 1
        /\ pendingCall.result
             = ReverseLookup(pendingCall.name, pendingCall.argTypeSpecs,
                             pendingCall.shouldReturnIfArgTypeMismatch)

\* C29, amended: for every name and every list of argument types at most one
\* entry of the registry satisfies the matching condition of
\* lookupBuiltinFn, and what lookupBuiltinFn returns does not depend on the
\* order of the registry when an entry matches or the mismatch flag is not
\* set.
C29_AtMostOneMatch ==
    pendingCall.fn = "lookupBuiltinFn" =>
        LET matching == Matching(pendingCall.name, pendingCall.argTypeSpecs)
        IN  /\ Cardinality(matching) <= 1
            /\ matching # {} \/ ~pendingCall.shouldReturnIfArgTypeMismatch
               => pendingCall.result
                    = ReverseLookup(pendingCall.name, pendingCall.argTypeSpecs,
                                    pendingCall.shouldReturnIfArgTypeMismatch)

\* INSTR with a number and two strings has been looked up: the second of the
\* two entries named instr is the one that matches.
C29_Witness ==
    /\ pendingCall.fn = "lookupBuiltinFn"
    /\ pendingCall.name = "INSTR"
    /\ pendingCall.argTypeSpecs = <<integerSpec, stringSpec, stringSpec>>
    /\ Matching(pendingCall.name, pendingCall.argTypeSpecs) = {3}
    /\ pendingCall.result = BUILTIN_FNS[3]

\* The call under way is LBOUND or UBOUND.
BoundCall ==
    /\ pendingCall.fn = "executeBuiltinFn"
    /\ toLowerCase(pendingCall.name) \in {"lbound", "ubound"}

\* C16: for an array of n dimensions, LBOUND(a, d) and UBOUND(a, d) give the
\* lower and the upper bound of dimension d for 1 <= d <= n and raise an
\* error for d < 1 and d > n; LBOUND(a) and UBOUND(a) give what d = 1 gives.
C16_BoundsOfDimension ==
    BoundCall =>
        LET dims == pendingCall.args[1][1].value.typeSpec.dimensionSpecs
            d == IF Len(pendingCall.args) = 2 THEN pendingCall.args[2][1].value.v
                 ELSE 1
            side == IF toLowerCase(pendingCall.name) = "lbound" THEN 1 ELSE 2
        IN  IF d >= 1 /\ d <= Len(dims)
            THEN ~pendingCall.threw /\ pendingCall.result = Num(dims[d][side])
            ELSE pendingCall.threw

\* UBOUND(a, 2) has been asked of an array whose two dimensions have
\* different bounds.
C16_Witness ==
    /\ BoundCall
    /\ pendingCall.name = "UBound"
    /\ Len(pendingCall.args) = 2
    /\ pendingCall.args[2][1].value.v = 2
    /\ ~pendingCall.threw
    /\ LET dims == pendingCall.args[1][1].value.typeSpec.dimensionSpecs
       IN  Len(dims) = 2 /\ dims[1] # dims[2]

-----------------------------------------------------------------------------
(* The semantic analyzer (src/unnamed/part_000): numeric coercion. *)

Rule(typeSpec1, typeSpec2, result) ==
    [operands |-> <<typeSpec1, typeSpec2>>, result |-> result]

\* A table whose Long with Single gives Long.
RULES_longOverSingle ==
    << Rule(integerSpec, integerSpec, integerSpec),
       Rule(integerSpec, longSpec, longSpec),
       Rule(integerSpec, singleSpec, singleSpec),
       Rule(integerSpec, doubleSpec, doubleSpec),
       Rule(longSpec, integerSpec, longSpec),
       Rule(longSpec, longSpec, longSpec),
       Rule(longSpec, singleSpec, longSpec),
       Rule(longSpec, doubleSpec, doubleSpec),
       Rule(singleSpec, integerSpec, singleSpec),
       Rule(singleSpec, longSpec, singleSpec),
       Rule(singleSpec, singleSpec, singleSpec),
       Rule(singleSpec, doubleSpec, doubleSpec),
       Rule(doubleSpec, integerSpec, doubleSpec),
       Rule(doubleSpec, longSpec, doubleSpec),
       Rule(doubleSpec, singleSpec, doubleSpec),
       Rule(doubleSpec, doubleSpec, doubleSpec) >>

\* The table of coerceNumericTypes, in its order.
RULES ==
    << Rule(integerSpec, integerSpec, integerSpec),
       Rule(integerSpec, longSpec, longSpec),
       Rule(integerSpec, singleSpec, singleSpec),
       Rule(integerSpec, doubleSpec, doubleSpec),
       Rule(longSpec, integerSpec, longSpec),
       Rule(longSpec, longSpec, longSpec),
       Rule(longSpec, singleSpec, singleSpec),
       Rule(longSpec, doubleSpec, doubleSpec),
       Rule(singleSpec, integerSpec, singleSpec),
       Rule(singleSpec, longSpec, singleSpec),
       Rule(singleSpec, singleSpec, singleSpec),
       Rule(singleSpec, doubleSpec, doubleSpec),
       Rule(doubleSpec, integerSpec, doubleSpec),
       Rule(doubleSpec, longSpec, doubleSpec),
       Rule(doubleSpec, singleSpec, doubleSpec),
       Rule(doubleSpec, doubleSpec, doubleSpec) >>

RECURSIVE coerceLoop(_, _, _)
\* The loop of coerceNumericTypes from t[i] on, i counted from 0.
coerceLoop(t, i, resultTypeSpec) ==
    IF i >= Len(t) THEN returned(resultTypeSpec)
    ELSE LET matchingRule ==
                 find(RULES, LAMBDA rule : /\ rule.operands[1] = resultTypeSpec
                                           /\ rule.operands[2] = t[i + 1])
         IN  IF matchingRule # null
             THEN coerceLoop(t, i + 1, matchingRule.result)
             ELSE thrown

\* coerceNumericTypes(...t)
coerceNumericTypes(t) ==
    IF Len(t) = 0 THEN thrown
    ELSE IF \E i \in 1 .. Len(t) : ~isNumeric(t[i]) THEN thrown
    ELSE coerceLoop(t, 1, t[1])

\* A call of coerceNumericTypes.  The function keeps nothing from one call to
\* the next: a behaviour follows one call.
coerceNumericTypes_call(t) ==
    /\ pendingCall.fn = "none"
    /\ pendingCall' = [fn |-> "coerceNumericTypes", t |-> t,
                       threw |-> coerceNumericTypes(t).threw,
                       result |-> coerceNumericTypes(t).value]
    /\ UNCHANGED <<genVars, execVars, analyzerVars, printed>>

NumericTypeSpecs == {integerSpec, longSpec, singleSpec, doubleSpec}

CoercedLists ==
    UNION { [1 .. n -> NumericTypeSpecs \cup {stringSpec}] : n \in 0 .. MaxCoerced }

NextCoerce == \E t \in CoercedLists : coerceNumericTypes_call(t)

SpecCoerce == Init /\ [][NextCoerce]_vars

\* Integer < Long < Single < Double.
Width(typeSpec) ==
    CASE typeSpec.type = "integer" -> 1
      [] typeSpec.type = "long" -> 2
      [] typeSpec.type = "single" -> 3
      [] typeSpec.type = "double" -> 4

\* coerceNumericTypes has been called with numeric types.
Coerced ==
    /\ pendingCall.fn = "coerceNumericTypes"
    /\ pendingCall.t # <<>>
    /\ \A i \in 1 .. Len(pendingCall.t) : pendingCall.t[i] \in NumericTypeSpecs

\* The lists that hold what t holds, in any order.
Reordered(t) ==
    { [i \in 1 .. Len(t) |-> t[p[i]]] :
        p \in { q \in [1 .. Len(t) -> 1 .. Len(t)] :
                  \A i, j \in 1 .. Len(t) : i # j => q[i] # q[j] } }

\* C17: coerceNumericTypes gives the widest of its operands under
\* Integer < Long < Single < Double; it is commutative, idempotent and
\* associative: a list of numeric types folds to the same type in every order
\* and every grouping.
C17_CoercionIsWidest ==
    Coerced =>
        LET t == pendingCall.t
            n == Len(t)
            of(list) == coerceNumericTypes(list).value
        IN  /\ ~pendingCall.threw
            /\ pendingCall.result \in { t[i] : i \in 1 .. n }
            /\ \A i \in 1 .. n : Width(t[i]) <= Width(pendingCall.result)
            /\ \A u \in Reordered(t) : of(u) = pendingCall.result
            /\ of(<<t[1], t[1]>>) = t[1]
            /\ \A k \in 1 .. n - 1 :
                  of(<<of(SubSeq(t, 1, k)), of(SubSeq(t, k + 1, n))>>)
                     = pendingCall.result

\* Three different numeric types, the widest of them in the middle, have been
\* coerced.
C17_Witness ==
    /\ Coerced
    /\ pendingCall.t = <<longSpec, doubleSpec, singleSpec>>
    /\ pendingCall.result = doubleSpec

-----------------------------------------------------------------------------
(* The semantic analyzer (src/unnamed/part_000).  A name is a sequence of     *)
(* characters, so that its suffix and its case are read from it.  A node as   *)
(* parsed has no typeSpec, varType or varScope field: the visit adds them.    *)
(* A visit is a function from the node and the module to the node as          *)
(* annotated, the module with its symbol tables, and the error thrown if any. *)

\* More AST nodes.
FnCallExpr(name, argExprs) == [type |-> "FnCall", name |-> name, argExprs |-> argExprs]
BinaryOpExpr(op, leftExpr, rightExpr) ==
    [type |-> "BinaryOp", op |-> op, leftExpr |-> leftExpr, rightExpr |-> rightExpr]
UnaryOpExpr(op, rightExpr) == [type |-> "UnaryOp", op |-> op, rightExpr |-> rightExpr]
PrintStmt(args) == [type |-> "PrintStmt", args |-> args]
InputStmt(targetExprs) == [type |-> "InputStmt", targetExprs |-> targetExprs]
FnProc(name, params) ==
    [type |-> "fn", name |-> name, params |-> params, stmts |-> <<>>]

\* BinaryOp, UnaryOp.
BinaryOps ==
    {"add", "sub", "mul", "exp", "intdiv", "mod", "div", "and", "or",
     "eq", "ne", "gt", "gte", "lt", "lte"}
UnaryOps == {"neg", "not", "parens"}

\* isElementaryType of lib/types.
isElementaryType(t) == isNumeric(t) \/ isString(t)

\* node.field = ..., Object.assign(node, source).
assign(node, source) == source @@ node

\* Symbols of lib/symbol-table.
VarSymbol(name, type, typeSpec) == [name |-> name, type |-> type, typeSpec |-> typeSpec]

\* toLowerCase of one character of the names used here.
lowerChar(c) ==
    CASE c = "X" -> "x"
      [] c = "F" -> "f"
      [] c = "S" -> "s"
      [] OTHER -> c

lowerName(name) == [i \in 1 .. Len(name) |-> lowerChar(name[i])]

\* lookupSymbol of lib/symbol-table: the first entry named name, whatever the
\* case, or null.
lookupSymbol(table, name) ==
    find(table, LAMBDA e : lowerName(e.name) = lowerName(name))

TYPE_SUFFIX_MAP ==
    [c \in {"%", "&", "!", "#", "$"} |->
        CASE c = "%" -> integerSpec
          [] c = "&" -> longSpec
          [] c = "!" -> singleSpec
          [] c = "#" -> doubleSpec
          [] c = "$" -> stringSpec]

getTypeSpecFromSuffix(name) ==
    LET lastCharInName == name[Len(name)]
    IN  IF lastCharInName \in DOMAIN TYPE_SUFFIX_MAP
        THEN TYPE_SUFFIX_MAP[lastCharInName]
        ELSE singleSpec

\* A preprocessing that declares no return-value variable in a function.
preprocessProc_noReturnVar(node) ==
    LET paramSymbols ==
            [i \in 1 .. Len(node.params) |->
                VarSymbol(node.params[i].name, "arg",
                          getTypeSpecFromSuffix(node.params[i].name))]
        returnTypeSpec == getTypeSpecFromSuffix(node.name)
    IN  IF node.type = "fn"
        THEN assign(node, [paramSymbols |-> paramSymbols,
                           returnTypeSpec |-> returnTypeSpec,
                           localSymbols |-> <<>>])
        ELSE assign(node, [paramSymbols |-> paramSymbols, localSymbols |-> <<>>])

\* preprocessProc
preprocessProc(node) ==
    LET paramSymbols ==
            [i \in 1 .. Len(node.params) |->
                VarSymbol(node.params[i].name, "arg",
                          getTypeSpecFromSuffix(node.params[i].name))]
        returnTypeSpec == getTypeSpecFromSuffix(node.name)
    IN  IF node.type = "fn"
        THEN assign(node, [paramSymbols |-> paramSymbols,
                           returnTypeSpec |-> returnTypeSpec,
                           localSymbols |->
                               <<VarSymbol(node.name, "var", returnTypeSpec)>>])
        ELSE assign(node, [paramSymbols |-> paramSymbols, localSymbols |-> <<>>])

\* getLocalSymbols: cp is currentProc.
getLocalSymbols(m, cp) ==
    IF cp # 0 THEN m.procs[cp].localSymbols ELSE m.localSymbols

\* addLocalSymbol
addLocalSymbol(m, cp, symbol) ==
    IF cp # 0
    THEN [m EXCEPT !.procs[cp].localSymbols = Append(@, symbol)]
    ELSE [m EXCEPT !.localSymbols = Append(@, symbol)]

Resolved(symbol, scope) == [symbol |-> symbol, scope |-> scope]

\* A lookup that goes on to the module's locals when the proc's tables miss.
Analyzer_lookupSymbol_moduleLocalsToo(name, m, cp) ==
    LET param == IF cp # 0 THEN lookupSymbol(m.procs[cp].paramSymbols, name) ELSE null
        local == lookupSymbol(getLocalSymbols(m, cp), name)
        moduleLocal == lookupSymbol(m.localSymbols, name)
        global == lookupSymbol(m.globalSymbols, name)
    IN  IF param # null THEN Resolved(param, "local")
        ELSE IF local # null THEN Resolved(local, "local")
        ELSE IF moduleLocal # null THEN Resolved(moduleLocal, "local")
        ELSE IF global # null THEN Resolved(global, "global")
        ELSE null

\* SemanticAnalyzer.lookupSymbol
Analyzer_lookupSymbol(name, m, cp) ==
    LET param == IF cp # 0 THEN lookupSymbol(m.procs[cp].paramSymbols, name) ELSE null
        local == lookupSymbol(getLocalSymbols(m, cp), name)
        global == lookupSymbol(m.globalSymbols, name)
    IN  IF param # null THEN Resolved(param, "local")
        ELSE IF local # null THEN Resolved(local, "local")
        ELSE IF global # null THEN Resolved(global, "global")
        ELSE null

\* What a visit leaves.
Visited(node, m) == [threw |-> FALSE, error |-> "", node |-> node, module |-> m]
Threw(err, node, m) == [threw |-> TRUE, error |-> err, node |-> node, module |-> m]
VisitedAll(nodes, m) == [threw |-> FALSE, error |-> "", nodes |-> nodes, module |-> m]
ThrewAt(err, nodes, m) == [threw |-> TRUE, error |-> err, nodes |-> nodes, module |-> m]

RECURSIVE Analyzer_accept(_, _, _)

RECURSIVE Analyzer_acceptAll(_, _, _)
\* acceptAll on expressions: one after the other, up to the first that throws.
Analyzer_acceptAll(exprs, m, cp) ==
    IF exprs = <<>> THEN VisitedAll(<<>>, m)
    ELSE Only({
               IF first.threw
               THEN ThrewAt(first.error, <<first.node>> \o Tail(exprs), first.module)
               ELSE Only({ [rest EXCEPT !.nodes = <<first.node>> \o @] :
                             rest \in {Analyzer_acceptAll(Tail(exprs), first.module, cp)} })
             : first \in {Analyzer_accept(Head(exprs), m, cp)} })

RECURSIVE requireNumericExpr(_, _, _)
\* requireNumericExpr(...exprs)
requireNumericExpr(exprs, m, cp) ==
    IF exprs = <<>> THEN VisitedAll(<<>>, m)
    ELSE Only({
               IF first.threw
               THEN ThrewAt(first.error, <<first.node>> \o Tail(exprs), first.module)
               ELSE IF ~isNumeric(first.node.typeSpec)
               THEN ThrewAt("SemanticError", <<first.node>> \o Tail(exprs), first.module)
               ELSE Only({ [rest EXCEPT !.nodes = <<first.node>> \o @] :
                             rest \in {requireNumericExpr(Tail(exprs), first.module, cp)} })
             : first \in {Analyzer_accept(Head(exprs), m, cp)} })

RECURSIVE requireElementaryTypeExpr(_, _, _)
\* requireElementaryTypeExpr(...exprs)
requireElementaryTypeExpr(exprs, m, cp) ==
    IF exprs = <<>> THEN VisitedAll(<<>>, m)
    ELSE Only({
               IF first.threw
               THEN ThrewAt(first.error, <<first.node>> \o Tail(exprs), first.module)
               ELSE IF ~isElementaryType(first.node.typeSpec)
               THEN ThrewAt("SemanticError", <<first.node>> \o Tail(exprs), first.module)
               ELSE Only({ [rest EXCEPT !.nodes = <<first.node>> \o @] :
                             rest \in {requireElementaryTypeExpr(Tail(exprs), first.module, cp)} })
             : first \in {Analyzer_accept(Head(exprs), m, cp)} })

\* visitLiteralExpr
Analyzer_visitLiteralExpr(node, m, cp) ==
    IF node.value.t = "string" THEN Visited(assign(node, [typeSpec |-> stringSpec]), m)
    ELSE IF node.value.t = "number"
    THEN Visited(assign(node, [typeSpec |-> singleSpec]), m)
    ELSE Threw("SemanticError", node, m)

\* visitFnCallExpr
Analyzer_visitFnCallExpr(node, m, cp) ==
    LET proc == lookupSymbol(m.procs, node.name)
        checked(args) ==
            LET visited == assign(node, [argExprs |-> args.nodes])
            IN  IF args.threw THEN Threw(args.error, visited, args.module)
                ELSE IF \E i \in 1 .. Len(args.nodes) :
                           ~areMatchingElementaryTypes(proc.paramSymbols[i].typeSpec,
                                                       args.nodes[i].typeSpec)
                THEN Threw("SemanticError", visited, args.module)
                ELSE Visited(assign(visited, [typeSpec |-> proc.returnTypeSpec]),
                             args.module)
    IN  IF proc = null \/ proc.type # "fn" THEN Threw("SemanticError", node, m)
        ELSE IF Len(proc.paramSymbols) # Len(node.argExprs)
        THEN Threw("SemanticError", node, m)
        ELSE Only({ checked(args) : args \in {Analyzer_acceptAll(node.argExprs, m, cp)} })

\* The symbol visitVarRefExpr declares for a name no table holds.
newLocal(name) ==
    Resolved(VarSymbol(name, "var", getTypeSpecFromSuffix(name)), "local")

\* visitVarRefExpr
Analyzer_visitVarRefExpr(node, m, cp) ==
    LET resolvedSymbol == Analyzer_lookupSymbol(node.name, m, cp)
        proc == lookupSymbol(m.procs, node.name)
        annotated(resolved) ==
            assign(node, [typeSpec |-> resolved.symbol.typeSpec,
                          varType |-> resolved.symbol.type,
                          varScope |-> resolved.scope])
    IN  IF resolvedSymbol # null THEN Visited(annotated(resolvedSymbol), m)
        ELSE IF proc # null
        THEN IF proc.type = "fn"
             THEN Only({
                      IF fnCallExpr.threw
                      THEN Threw(fnCallExpr.error, node, fnCallExpr.module)
                      ELSE Visited(assign(node, fnCallExpr.node), fnCallExpr.module)
                    : fnCallExpr \in
                        {Analyzer_visitFnCallExpr(FnCallExpr(node.name, <<>>), m, cp)} })
             ELSE Threw("SemanticError", node, m)
        ELSE Visited(annotated(newLocal(node.name)),
                     addLocalSymbol(m, cp, newLocal(node.name).symbol))

\* An operand test that one numeric operand satisfies.
requireNumericOperands_either(leftTypeSpec, rightTypeSpec) ==
    isNumeric(leftTypeSpec) \/ isNumeric(rightTypeSpec)

\* requireNumericOperands of visitBinaryOpExpr: TRUE when it does not throw.
requireNumericOperands(leftTypeSpec, rightTypeSpec) ==
    isNumeric(leftTypeSpec) /\ isNumeric(rightTypeSpec)

\* node.typeSpec = this.coerceNumericTypes(...t); coerceNumericTypes throws a
\* plain Error.
useCoercedNumericType(node, t, m) ==
    LET coerced == coerceNumericTypes(t)
    IN  IF coerced.threw THEN Threw("Error", node, m)
        ELSE Visited(assign(node, [typeSpec |-> coerced.value]), m)

\* visitBinaryOpExpr once both operands are visited.
binaryOpTyped(node, left, right) ==
    LET visited == assign(node, [leftExpr |-> left.node, rightExpr |-> right.node])
        leftTypeSpec == left.node.typeSpec
        rightTypeSpec == right.node.typeSpec
        mm == right.module
        typed(typeSpec) == Visited(assign(visited, [typeSpec |-> typeSpec]), mm)
        semanticError == Threw("SemanticError", visited, mm)
    IN  CASE node.op = "add" ->
               IF isString(leftTypeSpec) /\ isString(rightTypeSpec)
               THEN typed(stringSpec)
               ELSE IF ~requireNumericOperands(leftTypeSpec, rightTypeSpec)
               THEN semanticError
               ELSE useCoercedNumericType(visited, <<leftTypeSpec, rightTypeSpec>>, mm)
          [] node.op \in {"sub", "mul", "exp", "intdiv", "mod"} ->
               IF ~requireNumericOperands(leftTypeSpec, rightTypeSpec)
               THEN semanticError
               ELSE useCoercedNumericType(visited, <<leftTypeSpec, rightTypeSpec>>, mm)
          [] node.op = "div" ->
               IF ~requireNumericOperands(leftTypeSpec, rightTypeSpec)
               THEN semanticError
               ELSE useCoercedNumericType(
                        visited, <<leftTypeSpec, rightTypeSpec, singleSpec>>, mm)
          [] node.op \in {"and", "or"} ->
               IF ~requireNumericOperands(leftTypeSpec, rightTypeSpec)
               THEN semanticError
               ELSE typed(integerSpec)
          [] node.op \in {"eq", "ne", "gt", "gte", "lt", "lte"} ->
               IF ~areMatchingElementaryTypes(leftTypeSpec, rightTypeSpec)
               THEN semanticError
               ELSE typed(integerSpec)
          [] OTHER -> semanticError

\* visitBinaryOpExpr
Analyzer_visitBinaryOpExpr(node, m, cp) ==
    Only({
      IF left.threw
      THEN Threw(left.error, assign(node, [leftExpr |-> left.node]), left.module)
      ELSE Only({
             IF right.threw
             THEN Threw(right.error,
                        assign(node, [leftExpr |-> left.node, rightExpr |-> right.node]),
                        right.module)
             ELSE binaryOpTyped(node, left, right)
           : right \in {Analyzer_accept(node.rightExpr, left.module, cp)} })
    : left \in {Analyzer_accept(node.leftExpr, m, cp)} })

\* visitUnaryOpExpr once the operand is visited.
unaryOpTyped(node, right, cp) ==
    LET rightTypeSpec == right.node.typeSpec
        numeric(typeSpec) ==
            Only({
              IF required.threw
              THEN Threw(required.error,
                         assign(node, [rightExpr |-> required.nodes[1]]),
                         required.module)
              ELSE Visited(assign(node, [rightExpr |-> required.nodes[1],
                                         typeSpec |-> typeSpec]),
                           required.module)
            : required \in {requireNumericExpr(<<right.node>>, right.module, cp)} })
    IN  CASE node.op = "neg" -> numeric(rightTypeSpec)
          [] node.op = "not" -> numeric(integerSpec)
          [] node.op = "parens" ->
               Visited(assign(node, [rightExpr |-> right.node,
                                     typeSpec |-> rightTypeSpec]), right.module)
          [] OTHER ->
               Threw("SemanticError", assign(node, [rightExpr |-> right.node]),
                     right.module)

\* visitUnaryOpExpr
Analyzer_visitUnaryOpExpr(node, m, cp) ==
    Only({
      IF right.threw
      THEN Threw(right.error, assign(node, [rightExpr |-> right.node]), right.module)
      ELSE unaryOpTyped(node, right, cp)
    : right \in {Analyzer_accept(node.rightExpr, m, cp)} })

\* AstVisitor.accept on an expression node.
Analyzer_accept(node, m, cp) ==
    CASE node.type = "Literal" -> Analyzer_visitLiteralExpr(node, m, cp)
      [] node.type = "VarRef" -> Analyzer_visitVarRefExpr(node, m, cp)
      [] node.type = "FnCall" -> Analyzer_visitFnCallExpr(node, m, cp)
      [] node.type = "BinaryOp" -> Analyzer_visitBinaryOpExpr(node, m, cp)
      [] node.type = "UnaryOp" -> Analyzer_visitUnaryOpExpr(node, m, cp)

\* A statement's visit: the statement as annotated, the module, the error.
VisitedStmt(stmt, m) == [threw |-> FALSE, error |-> "", stmt |-> stmt, module |-> m]
ThrewIn(err, stmt, m) == [threw |-> TRUE, error |-> err, stmt |-> stmt, module |-> m]

RECURSIVE NumProcStmts(_)
NumProcStmts(procs) ==
    IF procs = <<>> THEN 0 ELSE Len(Head(procs).stmts) + NumProcStmts(Tail(procs))

\* The statements visited so far, the procs' included.
NumAnalyzed == Len(module.stmts) + NumProcStmts(module.procs)

\* The walk stands in module.stmts or in the statements of currentProc.
CanAnalyze ==
    /\ analysis.at = "stmts"
    /\ currentProc = 0 => analysis.proc = 0
    /\ NumAnalyzed < budget.stmts

\* The statement joins the list being walked; a throw ends run().
Analyzed(result) ==
    /\ module' = IF currentProc = 0
                 THEN [result.module EXCEPT !.stmts = Append(@, result.stmt)]
                 ELSE [result.module EXCEPT
                          !.procs[currentProc].stmts = Append(@, result.stmt)]
    /\ analysis' = IF result.threw
                   THEN [analysis EXCEPT !.at = "failed", !.error = result.error]
                   ELSE analysis
    /\ UNCHANGED <<currentProc, genVars, execVars, runtimeVars>>

\* run(), visitModule up to acceptAll(module.stmts).
Analyzer_visitModule ==
    /\ analysis.at = "none"
    /\ "stmts" \in DOMAIN module
    /\ module' = assign(module,
                        [procs |-> [i \in 1 .. Len(module.procs) |->
                                       preprocessProc(module.procs[i])],
                         localSymbols |-> <<>>,
                         globalSymbols |-> <<>>])
    /\ currentProc' = 0
    /\ analysis' = [analysis EXCEPT !.at = "stmts"]
    /\ UNCHANGED <<genVars, execVars, runtimeVars>>

\* visitFnProc: acceptAll(module.procs) reaches the next proc.
Analyzer_visitFnProc ==
    /\ analysis.at = "stmts"
    /\ currentProc = 0
    /\ analysis.proc < Len(module.procs)
    /\ currentProc' = analysis.proc + 1
    /\ analysis' = [analysis EXCEPT !.proc = @ + 1]
    /\ UNCHANGED <<module, genVars, execVars, runtimeVars>>

\* visitFnProc: node.stmts is exhausted.
Analyzer_visitFnProc_end ==
    /\ analysis.at = "stmts"
    /\ currentProc # 0
    /\ currentProc' = 0
    /\ UNCHANGED <<module, analysis, genVars, execVars, runtimeVars>>

\* visitModule: module.procs is exhausted, run() returns.
Analyzer_visitModule_end ==
    /\ analysis.at = "stmts"
    /\ currentProc = 0
    /\ analysis.proc = Len(module.procs)
    /\ analysis' = [analysis EXCEPT !.at = "done"]
    /\ UNCHANGED <<module, currentProc, genVars, execVars, runtimeVars>>

\* What the visit of a list of expressions leaves on the statement that
\* holds them.
StmtOf(visited, stmt) ==
    [threw |-> visited.threw, error |-> visited.error, stmt |-> stmt,
     module |-> visited.module]

\* visitAssignStmt once both sides are visited.
assignChecked(node, target, value) ==
    LET visited == assign(node, [targetExpr |-> target.node, valueExpr |-> value.node])
    IN  IF value.threw THEN ThrewIn(value.error, visited, value.module)
        ELSE IF ~areMatchingElementaryTypes(target.node.typeSpec, value.node.typeSpec)
        THEN ThrewIn("SemanticError", visited, value.module)
        ELSE VisitedStmt(visited, value.module)

\* visitAssignStmt
Analyzer_visitAssignStmt(node) ==
    /\ CanAnalyze
    /\ \E target \in {Analyzer_accept(node.targetExpr, module, currentProc)} :
          IF target.threw
          THEN Analyzed(ThrewIn(target.error, assign(node, [targetExpr |-> target.node]),
                                target.module))
          ELSE \E value \in {Analyzer_accept(node.valueExpr, target.module, currentProc)} :
                  \E result \in {assignChecked(node, target, value)} : Analyzed(result)

\* visitIfStmt of an IF with one branch, visitCondLoopStmt: the condition is
\* required to be numeric; the nested statements are visited after it.
Analyzer_visitCondStmt(node) ==
    /\ CanAnalyze
    /\ LET cond == IF node.type = "IfStmt" THEN node.condExprs[1] ELSE node.condExpr
       IN  \E required \in {requireNumericExpr(<<cond>>, module, currentProc)} :
              Analyzed(StmtOf(required,
                              IF node.type = "IfStmt"
                              THEN assign(node, [condExprs |-> required.nodes])
                              ELSE assign(node, [condExpr |-> required.nodes[1]])))

\* visitForStmt
Analyzer_visitForStmt(node) ==
    /\ CanAnalyze
    /\ LET exprs == <<node.counterExpr, node.startExpr, node.endExpr>>
                       \o (IF node.stepExpr # NoExpr THEN <<node.stepExpr>> ELSE <<>>)
       IN  \E required \in {requireNumericExpr(exprs, module, currentProc)} :
              Analyzed(StmtOf(required,
                              assign(node,
                                     [counterExpr |-> required.nodes[1],
                                      startExpr |-> required.nodes[2],
                                      endExpr |-> required.nodes[3],
                                      stepExpr |-> IF node.stepExpr # NoExpr
                                                   THEN required.nodes[4] ELSE NoExpr])))

\* visitNextStmt
Analyzer_visitNextStmt(node) ==
    /\ CanAnalyze
    /\ \E required \in {requireNumericExpr(node.counterExprs, module, currentProc)} :
          Analyzed(StmtOf(required, assign(node, [counterExprs |-> required.nodes])))

RECURSIVE printArgsLoop(_, _, _)
\* The loop of visitPrintStmt.
printArgsLoop(args, m, cp) ==
    IF args = <<>> THEN VisitedAll(<<>>, m)
    ELSE IF isSeparator(Head(args))
    THEN Only({ [rest EXCEPT !.nodes = <<Head(args)>> \o @] :
                  rest \in {printArgsLoop(Tail(args), m, cp)} })
    ELSE Only({
           IF required.threw
           THEN ThrewAt(required.error, required.nodes \o Tail(args), required.module)
           ELSE Only({ [rest EXCEPT !.nodes = required.nodes \o @] :
                         rest \in {printArgsLoop(Tail(args), required.module, cp)} })
         : required \in {requireElementaryTypeExpr(<<Head(args)>>, m, cp)} })

\* visitPrintStmt
Analyzer_visitPrintStmt(node) ==
    /\ CanAnalyze
    /\ \E visited \in {printArgsLoop(node.args, module, currentProc)} :
          Analyzed(StmtOf(visited, assign(node, [args |-> visited.nodes])))

\* visitInputStmt
Analyzer_visitInputStmt(node) ==
    /\ CanAnalyze
    /\ \E required \in {requireElementaryTypeExpr(node.targetExprs, module,
                                                   currentProc)} :
          Analyzed(StmtOf(required, assign(node, [targetExprs |-> required.nodes])))

\* visitLabelStmt, visitGotoStmt, visitUncondLoopStmt, visitExitLoopStmt,
\* visitExitForStmt, visitGosubStmt, visitReturnStmt, visitEndStmt: nothing
\* is done on the node.
Analyzer_visitPlainStmt(node) ==
    /\ CanAnalyze
    /\ Analyzed(VisitedStmt(node, module))

-----------------------------------------------------------------------------
(* Analysis of every module up to the bounds. *)

Name_x == <<"x">>
Name_X == <<"X">>
Name_s == <<"s", "$">>
Name_f == <<"f">>
Name_F == <<"F">>
Name_g == <<"g">>

Param(name) == [name |-> name]

\* No proc; FUNCTION f; FUNCTION f(x, F); FUNCTION s$ and FUNCTION f.
AnalyzedProcLists ==
    { <<>>,
      <<FnProc(Name_f, <<>>)>>,
      <<FnProc(Name_f, <<Param(Name_x), Param(Name_F)>>)>>,
      <<FnProc(Name_s, <<>>), FnProc(Name_f, <<>>)>> }

One == LiteralExpr(Num(1))
Text == LiteralExpr(JsString("a"))

AnalyzedAtoms ==
    { One, Text, VarRefExpr(Name_x), VarRefExpr(Name_X), VarRefExpr(Name_s),
      VarRefExpr(Name_f) }

AnalyzedOperands == { One, Text, VarRefExpr(Name_x) }

AnalyzedExprs ==
    AnalyzedAtoms
    \cup { UnaryOpExpr(op, e) : op \in UnaryOps, e \in AnalyzedOperands \cup {VarRefExpr(Name_f)} }
    \cup { BinaryOpExpr(op, l, r) : op \in {"add", "eq"}, l, r \in AnalyzedOperands }
    \cup { FnCallExpr(Name_F, <<>>), FnCallExpr(Name_g, <<>>) }
    \cup { FnCallExpr(Name_f, <<l, r>>) : l, r \in {One, Text} }
    \cup { BinaryOpExpr("div", UnaryOpExpr("parens", VarRefExpr(Name_f)),
                        FnCallExpr(Name_f, <<VarRefExpr(Name_X), One>>)) }

AnalyzedTargets == { VarRefExpr(Name_x), VarRefExpr(Name_s), VarRefExpr(Name_f) }

AnalyzedAssignStmts ==
    { AssignStmt(t, v) : t \in AnalyzedTargets, v \in AnalyzedOperands \cup {VarRefExpr(Name_f)} }

AnalyzedCondStmts ==
    { IfStmt(<<e>>, FALSE) : e \in AnalyzedOperands }
    \cup { CondLoopStmt("CondBeforeStmts", FALSE, e) : e \in AnalyzedAtoms }

AnalyzedForStmts ==
    { ForStmt(c, One, e, s) : c \in {VarRefExpr(Name_x), VarRefExpr(Name_s)},
                              e \in {One, VarRefExpr(Name_X)}, s \in {NoExpr, One} }

AnalyzedNextStmts ==
    { NextStmt(<<>>), NextStmt(<<VarRefExpr(Name_x)>>),
      NextStmt(<<VarRefExpr(Name_x), VarRefExpr(Name_s)>>) }

AnalyzedPrintStmts ==
    { PrintStmt(<<e>>) : e \in AnalyzedExprs }
    \cup { PrintStmt(<<>>), PrintStmt(<<VarRefExpr(Name_x), JsString(";"), Text>>) }

AnalyzedInputStmts ==
    { InputStmt(<<t>>) : t \in AnalyzedAtoms \ {One, Text} }
    \cup { InputStmt(<<VarRefExpr(Name_x), VarRefExpr(Name_s)>>),
           InputStmt(<<VarRefExpr(Name_F)>>) }

AnalyzedPlainStmts == { EndStmt, ExitForStmt }

NextAnalyze ==
    \/ Analyzer_visitModule
    \/ \E node \in AnalyzedAssignStmts : Analyzer_visitAssignStmt(node)
    \/ \E node \in AnalyzedCondStmts : Analyzer_visitCondStmt(node)
    \/ \E node \in AnalyzedForStmts : Analyzer_visitForStmt(node)
    \/ \E node \in AnalyzedNextStmts : Analyzer_visitNextStmt(node)
    \/ \E node \in AnalyzedPrintStmts : Analyzer_visitPrintStmt(node)
    \/ \E node \in AnalyzedInputStmts : Analyzer_visitInputStmt(node)
    \/ \E node \in AnalyzedPlainStmts : Analyzer_visitPlainStmt(node)
    \/ Analyzer_visitFnProc
    \/ Analyzer_visitFnProc_end
    \/ Analyzer_visitModule_end

\* A SemanticAnalyzer constructed on a parsed module.
InitAnalyze ==
    /\ Constructed
    /\ module \in { [procs |-> procs, stmts |-> <<>>] : procs \in AnalyzedProcLists }
    /\ currentProc = 0
    /\ analysis = NotAnalyzed
    /\ budget = [stmts |-> MaxAnalyzedStmts, steps |-> 0]

SpecAnalyze == InitAnalyze /\ [][NextAnalyze]_vars

-----------------------------------------------------------------------------
(* What the analysis leaves on the nodes. *)

HasType(node) == "typeSpec" \in DOMAIN node /\ node.typeSpec # null
HasScope(node) == "varScope" \in DOMAIN node /\ node.varScope \in {"local", "global"}

RECURSIVE Annotated(_)
\* The node and every node under it have a type, the VarRefs a scope.
Annotated(node) ==
    /\ HasType(node)
    /\ CASE node.type = "VarRef" -> HasScope(node)
         [] node.type = "FnCall" ->
              \A i \in 1 .. Len(node.argExprs) : Annotated(node.argExprs[i])
         [] node.type = "BinaryOp" -> Annotated(node.leftExpr) /\ Annotated(node.rightExpr)
         [] node.type = "UnaryOp" -> Annotated(node.rightExpr)
         [] OTHER -> TRUE

\* The expressions a statement holds.
ExprsOf(stmt) ==
    CASE stmt.type = "AssignStmt" -> <<stmt.targetExpr, stmt.valueExpr>>
      [] stmt.type = "IfStmt" -> stmt.condExprs
      [] stmt.type = "CondLoopStmt" -> <<stmt.condExpr>>
      [] stmt.type = "ForStmt" ->
           <<stmt.counterExpr, stmt.startExpr, stmt.endExpr>>
              \o (IF stmt.stepExpr # NoExpr THEN <<stmt.stepExpr>> ELSE <<>>)
      [] stmt.type = "NextStmt" -> stmt.counterExprs
      [] stmt.type = "PrintStmt" -> SelectSeq(stmt.args, LAMBDA arg : "type" \in DOMAIN arg)
      [] stmt.type = "InputStmt" -> stmt.targetExprs
      [] OTHER -> <<>>

RECURSIVE ProcStmts(_)
ProcStmts(procs) ==
    IF procs = <<>> THEN <<>> ELSE Head(procs).stmts \o ProcStmts(Tail(procs))

\* The statements of the module and of its procs.
AnalyzedStmts == module.stmts \o ProcStmts(module.procs)

\* C18: once the analysis of a module has completed without error, every
\* expression node of the module's and of its procs' statements has a type,
\* and every node that is still a VarRef has a scope; a VarRef rewritten in
\* place into a call without arguments has the type of the call.
C18_EveryExprIsTyped ==
    analysis.at = "done" =>
        \A i \in 1 .. Len(AnalyzedStmts) :
            \A j \in 1 .. Len(ExprsOf(AnalyzedStmts[i])) :
                Annotated(ExprsOf(AnalyzedStmts[i])[j])

\* A module has been analyzed whose PRINT (f) held a VarRef to FUNCTION f, now
\* a call of f, and whose FUNCTION f holds INPUT X, a VarRef still.
C18_Witness ==
    /\ analysis.at = "done"
    /\ module.stmts =
         << PrintStmt(<< assign(UnaryOpExpr("parens",
                                            assign(FnCallExpr(Name_f, <<>>),
                                                   [typeSpec |-> singleSpec])),
                                [typeSpec |-> singleSpec]) >>) >>
    /\ Len(module.procs) = 1
    /\ module.procs[1].stmts =
         << InputStmt(<< assign(VarRefExpr(Name_X),
                                [typeSpec |-> singleSpec, varType |-> "var",
                                 varScope |-> "local"]) >>) >>

-----------------------------------------------------------------------------
(* The resolution of a variable reference inside a proc. *)

AnalyzedNames == {Name_x, Name_X, Name_s, Name_f}

\* The table holds the name, whatever the case.
Holds(table, name) ==
    \E i \in 1 .. Len(table) : lowerName(table[i].name) = lowerName(name)

\* The first entry of the table that holds the name.
FirstHeld(table, name) ==
    table[CHOOSE i \in 1 .. Len(table) :
              /\ lowerName(table[i].name) = lowerName(name)
              /\ \A j \in 1 .. i - 1 : lowerName(table[j].name) # lowerName(name)]

\* The step visits, inside a proc, INPUT of the one variable name.
RefersInProc(name) ==
    /\ currentProc # 0
    /\ currentProc' = currentProc
    /\ Len(module'.procs[currentProc].stmts) = Len(module.procs[currentProc].stmts) + 1
    /\ LET stmt == Last(module'.procs[currentProc].stmts)
       IN  /\ stmt.type = "InputStmt"
           /\ Len(stmt.targetExprs) = 1
           /\ stmt.targetExprs[1].name = name

\* The step has resolved the reference to name through the tables, searched in
\* their order: the first that holds the name supplies the symbol and nothing
\* is declared; a local of the proc is declared when they all miss and the
\* name is not a function.
ResolvedThrough(name, tables, scopes) ==
    LET proc == module.procs[currentProc]
        procAfter == module'.procs[currentProc]
        node == Last(procAfter.stmts).targetExprs[1]
        holding == { k \in 1 .. Len(tables) : Holds(tables[k], name) }
        nothingDeclared ==
            /\ procAfter.localSymbols = proc.localSymbols
            /\ procAfter.paramSymbols = proc.paramSymbols
            /\ module'.localSymbols = module.localSymbols
            /\ module'.globalSymbols = module.globalSymbols
        suppliedBy(symbol, scope) ==
            /\ node.type = "VarRef"
            /\ node.typeSpec = symbol.typeSpec
            /\ node.varType = symbol.type
            /\ node.varScope = scope
    IN  IF holding # {}
        THEN LET first == CHOOSE k \in holding : \A other \in holding : k <= other
             IN  /\ suppliedBy(FirstHeld(tables[first], name), scopes[first])
                 /\ nothingDeclared
        ELSE IF Holds(module.procs, name) THEN nothingDeclared
        ELSE LET symbol == VarSymbol(name, "var", getTypeSpecFromSuffix(name))
             IN  /\ suppliedBy(symbol, "local")
                 /\ procAfter.localSymbols = Append(proc.localSymbols, symbol)
                 /\ procAfter.paramSymbols = proc.paramSymbols
                 /\ module'.localSymbols = module.localSymbols
                 /\ module'.globalSymbols = module.globalSymbols

\* C19 as stated: a variable reference inside a proc is resolved by searching
\* the proc's params, the proc's locals, the module's locals and the module's
\* globals in this order, the first table holding the name (whatever the
\* case) supplying the symbol; a new local is declared only when all four
\* miss and the name is not a function.
C19_FourTables ==
    [][\A name \in AnalyzedNames :
         RefersInProc(name) =>
            ResolvedThrough(name,
                            << module.procs[currentProc].paramSymbols,
                               module.procs[currentProc].localSymbols,
                               module.localSymbols,
                               module.globalSymbols >>,
                            <<"local", "local", "local", "global">>)]_vars

\* C19, amended: a variable reference inside a proc is resolved by searching
\* the proc's params, the proc's locals and the module's globals in this
\* order (the module's locals are searched at module level only), the first
\* table holding the name (whatever the case) supplying the symbol; a new
\* local of the proc is declared when the three miss and the name is not a
\* function.
C19_LookupOrder ==
    [][\A name \in AnalyzedNames :
         RefersInProc(name) =>
            ResolvedThrough(name,
                            << module.procs[currentProc].paramSymbols,
                               module.procs[currentProc].localSymbols,
                               module.globalSymbols >>,
                            <<"local", "local", "global">>)]_vars

\* Inside FUNCTION f(x, F), INPUT f has been resolved to the param F although
\* the locals hold f, and INPUT s$ has declared the local s$.
C19_Witness ==
    /\ currentProc = 1
    /\ module.procs[1].paramSymbols =
         << VarSymbol(Name_x, "arg", singleSpec), VarSymbol(Name_F, "arg", singleSpec) >>
    /\ module.procs[1].stmts =
         << InputStmt(<< assign(VarRefExpr(Name_f),
                                [typeSpec |-> singleSpec, varType |-> "arg",
                                 varScope |-> "local"]) >>),
            InputStmt(<< assign(VarRefExpr(Name_s),
                                [typeSpec |-> stringSpec, varType |-> "var",
                                 varScope |-> "local"]) >>) >>
    /\ module.procs[1].localSymbols =
         << VarSymbol(Name_f, "var", singleSpec), VarSymbol(Name_s, "var", stringSpec) >>

-----------------------------------------------------------------------------
(* FOR loops whose end and step expressions read variables that the body      *)
(* assigns, or the counter itself.                                             *)

\* FOR i = a TO b|i [STEP s|i].
EntryForStmts ==
    { ForStmt(VarRefExpr("i"), VarRefExpr("a"), e, st) :
        e \in {VarRefExpr("b"), VarRefExpr("i")},
        st \in {NoExpr, VarRefExpr("s"), VarRefExpr("i")} }

\* b = a, b = i, s = a.
EntryAssignStmts ==
    { AssignStmt(VarRefExpr("b"), VarRefExpr("a")),
      AssignStmt(VarRefExpr("b"), VarRefExpr("i")),
      AssignStmt(VarRefExpr("s"), VarRefExpr("a")) }

NextForEntry ==
    \/ \E node \in EntryForStmts : visitForStmt(node)
    \/ \E node \in {NextStmt(<<>>), NextStmt(<<VarRefExpr("i")>>)} : visitNextStmt(node)
    \/ \E node \in EntryAssignStmts : visitAssignStmt(node)
    \/ visitModule_endStmts
    \/ visitModule_return
    \/ executeModule(ForStartVars)
    \/ executeStep

SpecForEntry == InitFor /\ [][NextForEntry]_vars

\* The runs of the initialisation statement of the FOR on line p.
ForEntries(p) == SelectSeq(trace, LAMBDA t : t.loc = <<p, 0>> /\ t.op = "set")

\* What an expression of the FOR on line p is worth at the entry of the loop,
\* the variables holding env: the counter has the start value by then.
AtEntry(p, expr, env) ==
    IF expr.name = ast[p].counterExpr.name THEN env[ast[p].startExpr.name].v
    ELSE env[expr.name].v

\* C25: at the entry of a lowered FOR the counter is assigned the start value
\* first, then the step expression (1 if absent) and then the end expression
\* are evaluated, each once, into the loop's temporaries; the guard uses what
\* was stored, so the body runs once for each of a, a+s, ... not past the end
\* value of the entry, whatever the body assigns to the variables of the step
\* and end expressions.
C25_BoundsFixedAtEntry ==
    phase = "halted" =>
        \A p \in 1 .. Len(ast) :
            PlainFor(p) =>
                /\ Len(ForEntries(p)) = 1
                /\ LET t == ForEntries(p)[1]
                       a == AtEntry(p, ast[p].startExpr, t.env)
                       st == IF ast[p].stepExpr.type = "none" THEN 1
                             ELSE AtEntry(p, ast[p].stepExpr, t.env)
                       b == AtEntry(p, ast[p].endExpr, t.env)
                   IN  /\ [k \in 1 .. Len(Stmts[t.pc].run) |->
                              Stmts[t.pc].run[k].target.name]
                            = << ast[p].counterExpr.name,
                                 StemOf(p) \o "_step",
                                 StemOf(p) \o "_end" >>
                       /\ CounterValuesAt(p, LAMBDA u : GuardPassed(p, u))
                             = ForValues(a, b, st)

\* FOR i = a TO b STEP s has run its body, which assigns b and s, more than
\* once, and b no longer holds the end value of the entry.
C25_Witness ==
    /\ phase = "halted"
    /\ Len(ast) = 4
    /\ PlainFor(1)
    /\ ast[1].endExpr = VarRefExpr("b") /\ ast[1].stepExpr = VarRefExpr("s")
    /\ InBodyOf(2, 1) /\ ast[2].targetExpr = VarRefExpr("b")
    /\ InBodyOf(3, 1) /\ ast[3].targetExpr = VarRefExpr("s")
    /\ Len(SelectSeq(trace, LAMBDA u : GuardPassed(1, u))) > 1
    /\ localVars["b"] # ForEntries(1)[1].env["b"]
    /\ localVars["s"] # ForEntries(1)[1].env["s"]

-----------------------------------------------------------------------------
(* FOR loops run to their end: the executor keeps taking steps.                *)

\* The steps include 0, with which a loop whose start does not pass its end
\* never ends.
FairStepValues == {0, 1, -1}

FairStartValues == {1, 3}
FairEndValues == {2}

FairStartVars ==
    { [n \in {"a", "b", "s"} |->
         Num(CASE n = "a" -> a [] n = "b" -> b [] n = "s" -> st) ] :
        a \in FairStartValues, b \in FairEndValues, st \in FairStepValues }

\* FOR c = a TO b STEP s.
FairForStmts ==
    { ForStmt(VarRefExpr(c), VarRefExpr("a"), VarRefExpr("b"), VarRefExpr("s")) :
        c \in CounterNames }

NextForFair ==
    \/ \E node \in FairForStmts : visitForStmt(node)
    \/ visitNextStmt(NextStmt(<<>>))
    \/ visitAssignStmt(AssignStmt(VarRefExpr("x"), VarRefExpr("i")))
    \/ visitModule_endStmts
    \/ visitModule_return
    \/ executeModule(FairStartVars)
    \/ executeStep

\* The executor's loop runs until the program ends: a step that can be taken
\* is taken.
InitForFair == Start /\ budget = [stmts |-> MaxFairStmts, steps |-> MaxFairSteps]

SpecForFair == InitForFair /\ [][NextForFair]_vars /\ WF_vars(executeStep)

\* The FOR on line q is in the body of the FOR on line p.
NestedIn(q, p) ==
    /\ q > p
    /\ ast[q].type = "ForStmt"
    /\ \E k \in 1 .. Len(OpenForsAfter(q - 1)) : OpenForsAfter(q - 1)[k] = p

\* No FOR of the module has in its body a FOR on the same counter: the
\* bodies are assignments to x and FOR loops, so no body assigns the counter
\* of its loop and none jumps.
NoBodyAssignsItsCounter ==
    \A p, q \in 1 .. Len(ast) :
        ast[p].type = "ForStmt" /\ NestedIn(q, p)
          => ast[q].counterExpr.name # ast[p].counterExpr.name

\* Every FOR of the module has a step that is not zero.
NoStepIsZero ==
    \A p \in 1 .. Len(ast) : ast[p].type = "ForStmt" => StepOf(p, localVars) # 0

\* The executor has run the initialisation of the FOR of line p.
Entered(p) ==
    \E k \in 1 .. Len(trace) : trace[k].loc = <<p, 0>> /\ trace[k].op = "set"

\* The executor has jumped to the loopEnd label of the FOR of line p.
ReachedLoopEnd(p) ==
    \E k \in 1 .. Len(trace) :
        trace[k].to = labelIndex(Stmts, StemOf(p) \o "_loopEnd")

\* C28: the executor running a module whose lowered FOR loops have integer
\* start and end and a step that is not zero, and whose loop bodies do not
\* assign the counter of their loop and do not jump, eventually reaches the
\* end of the module, and it has then reached the loopEnd label of every
\* loop it entered, whatever the start and the end.
C28_ForReachesLoopEnd ==
    /\ [](phase = "exec" /\ NoBodyAssignsItsCounter /\ NoStepIsZero
            => <>(phase = "halted"))
    /\ [](phase = "halted" =>
            \A p \in 1 .. Len(ast) :
                ast[p].type = "ForStmt" /\ Entered(p) => ReachedLoopEnd(p))

\* Two nested loops with a negative step have run to their loopEnd labels,
\* the inner one more than once.
C28_Witness ==
    /\ phase = "halted"
    /\ Len(ast) = 4
    /\ ast[1].type = "ForStmt" /\ ast[1].stepExpr = VarRefExpr("s")
    /\ NestedIn(2, 1) /\ ast[2].stepExpr = VarRefExpr("s")
    /\ NoBodyAssignsItsCounter
    /\ localVars["s"] = Num(-1)
    /\ ReachedLoopEnd(1)
    /\ Cardinality({ k \in 1 .. Len(trace) :
                       trace[k].to = labelIndex(Stmts, StemOf(2) \o "_loopEnd") }) > 1

-----------------------------------------------------------------------------
(* FOR loops left by their guard or by EXIT FOR, compiled and executed. *)

NextExitFor ==
    \/ \E node \in RunForStmts : visitForStmt(node)
    \/ \E node \in GenNextStmts : visitNextStmt(node)
    \/ \E node \in RunAssignStmts : visitAssignStmt(node)
    \/ visitExitForStmt(ExitForStmt)
    \/ visitModule_endStmts
    \/ visitModule_return
    \/ executeModule(ForStartVars)
    \/ executeStep

SpecExitFor == InitFor /\ [][NextExitFor]_vars

\* The label prefixes of the compiled FOR loops.
LoopPrefixes ==
    { generateLabel(n) : n \in 1 .. nextGeneratedLabelIdx - 1 }

\* The executor is at or past the initialisation of the loop and has not yet
\* run the statement that follows its loopEnd label.
InsideLoop(prefix) ==
    /\ pc >= labelIndex(Stmts, prefix \o "_loopStart")
    /\ pc <= labelIndex(Stmts, prefix \o "_loopEnd") + 1

\* The k-th statement run has jumped to the loopEnd label of the loop.
LeftThroughLoopEnd(k, prefix) ==
    /\ trace[k].to <= Len(Stmts)
    /\ Stmts[trace[k].to] = generateLabelStmt(prefix \o "_loopEnd")

\* C24: whenever the executor leaves a lowered FOR loop through its loopEnd
\* label (the guard failing or EXIT FOR), the next statement it runs is the
\* one after the label, which deletes the loop's step and end temporaries;
\* so the temp-var dictionary holds entries only of loops under way, and
\* none when the program has ended.
C24_TemporariesReleased ==
    phase \in {"exec", "halted"} =>
        /\ \A k \in 1 .. Len(trace) - 1 :
              \A prefix \in LoopPrefixes :
                 LeftThroughLoopEnd(k, prefix) =>
                    /\ trace[k + 1].pc = trace[k].to + 1
                    /\ Stmts[trace[k + 1].pc].run
                         = << [op |-> "delete",
                               target |-> generateTempVarRef(prefix \o "_step")],
                              [op |-> "delete",
                               target |-> generateTempVarRef(prefix \o "_end")] >>
        /\ \A prefix \in LoopPrefixes :
              (prefix \o "_step" \in DOMAIN tempVars
                 \/ prefix \o "_end" \in DOMAIN tempVars)
              => phase = "exec" /\ InsideLoop(prefix)
        /\ phase = "halted" => tempVars = NoVars

\* A program of two nested loops has ended: the inner loop was left by EXIT
\* FOR, the outer one by its guard after more than one iteration.
C24_Witness ==
    /\ phase = "halted"
    /\ Len(ast) = 4
    /\ ast[1].type = "ForStmt" /\ ast[2].type = "ForStmt"
    /\ ast[3].type = "ExitForStmt" /\ ast[4].type = "NextStmt"
    /\ \E k \in 1 .. Len(trace) :
          trace[k].loc = <<3, 0>> /\ LeftThroughLoopEnd(k, generateLabel(2))
    /\ Cardinality({ k \in 1 .. Len(trace) : trace[k].loc = <<3, 0>> }) > 1
    /\ tempVars = NoVars

-----------------------------------------------------------------------------
(* FOR and NEXT across the blocks of IF and DO. *)

\* Code generation of the modules of up to MaxBlockStmts statements made of
\* FOR, NEXT, IF and DO.
NextBlocks ==
    \/ \E node \in GenIfStmts : visitIfStmt(node)
    \/ visitIfStmt_endBranch
    \/ visitIfStmt_endElse
    \/ visitUncondLoopStmt(UncondLoopStmt)
    \/ visitUncondLoopStmt_end
    \/ \E node \in GenForStmts : visitForStmt(node)
    \/ \E c \in CounterNames : visitNextStmt(NextStmt(<<VarRefExpr(c)>>))
    \/ visitModule_endStmts
    \/ visitFnProc
    \/ visitFnProc_endStmts
    \/ visitModule_return

InitBlocks == Start /\ budget = [stmts |-> MaxBlockStmts, steps |-> 0]

SpecBlocks == InitBlocks /\ [][NextBlocks]_vars

\* The block the node was visited in is still being generated.
BlockIsOpen(node) ==
    \E j \in 1 .. Len(stack) :
        /\ stack[j].line = node.parent[1]
        /\ stack[j].arm = node.parent[2]
        /\ node.scope = Len(compiled)

\* C27: as long as generation has not failed, every FOR on the open-FOR
\* stack was pushed in a block that is still being generated: when a
\* statement block (an IF arm, an ELSE branch, a DO body, a proc body, the
\* module body) has ended without error, no FOR of that block is left open.
C27_ForClosedInItsBlock ==
    phase # "failed" =>
        \A k \in 1 .. Len(openForStmtStates) :
            BlockIsOpen(openForStmtStates[k].forStmt)

-----------------------------------------------------------------------------
(* The name of a function, referred to without arguments. *)

\* The step has visited, without error, INPUT of the one variable name.
RefersTo(name) ==
    LET stmtsOf(m) == IF currentProc = 0 THEN m.stmts ELSE m.procs[currentProc].stmts
    IN  /\ analysis.at = "stmts"
        /\ analysis'.at = "stmts"
        /\ currentProc' = currentProc
        /\ Len(stmtsOf(module')) = Len(stmtsOf(module)) + 1
        /\ Last(stmtsOf(module')).type = "InputStmt"
        /\ Len(Last(stmtsOf(module')).targetExprs) = 1
        /\ Last(stmtsOf(module')).targetExprs[1].name = name

\* The name is a param, a local or a global in scope where the step is.
InScope(name) ==
    \/ Holds(module.globalSymbols, name)
    \/ currentProc = 0 /\ Holds(module.localSymbols, name)
    \/ currentProc # 0 /\ Holds(module.procs[currentProc].paramSymbols, name)
    \/ currentProc # 0 /\ Holds(module.procs[currentProc].localSymbols, name)

-----------------------------------------------------------------------------
(* The binary operators on operands of every elementary type. *)

Name_n == <<"n", "%">>
Name_l == <<"l", "&">>
Name_d == <<"d", "#">>

\* Single, String, Integer, Long, Double and String variables, a String and a
\* Single expression.
BinaryOperands ==
    { One, Text, VarRefExpr(Name_n), VarRefExpr(Name_l), VarRefExpr(Name_d),
      VarRefExpr(Name_s), BinaryOpExpr("add", Text, Text), UnaryOpExpr("neg", One) }

BinaryOpPrintStmts ==
    { PrintStmt(<<BinaryOpExpr(op, l, r)>>) : op \in BinaryOps, l, r \in BinaryOperands }

NextBinaryOp ==
    \/ Analyzer_visitModule
    \/ \E node \in BinaryOpPrintStmts : Analyzer_visitPrintStmt(node)
    \/ Analyzer_visitModule_end

\* A SemanticAnalyzer constructed on a parsed module without procs.
InitBinaryOp ==
    /\ Constructed
    /\ module = [procs |-> <<>>, stmts |-> <<>>]
    /\ currentProc = 0
    /\ analysis = NotAnalyzed
    /\ budget = [stmts |-> MaxBinaryOpStmts, steps |-> 0]

SpecBinaryOp == InitBinaryOp /\ [][NextBinaryOp]_vars

\* The wider of two numeric types.
Wider(a, b) == IF Width(a) >= Width(b) THEN a ELSE b

\* C20: whatever the binary operator, the analysis of an expression with one
\* String and one numeric operand fails with a SemanticError and the node is
\* given no type; '+' on two Strings is a String, '+' on two numeric operands
\* has the coerced numeric type.
C20_MixedOperandsFail ==
    \A i \in 1 .. Len(module.stmts) :
        LET node == module.stmts[i].args[1]
            l == node.leftExpr
            r == node.rightExpr
        IN  HasType(l) /\ HasType(r) =>
              /\ \/ l.typeSpec = stringSpec /\ r.typeSpec \in NumericTypeSpecs
                 \/ l.typeSpec \in NumericTypeSpecs /\ r.typeSpec = stringSpec
                 => /\ "typeSpec" \notin DOMAIN node
                    /\ analysis.at = "failed"
                    /\ analysis.error = "SemanticError"
              /\ node.op = "add" /\ l.typeSpec = stringSpec /\ r.typeSpec = stringSpec
                 => HasType(node) /\ node.typeSpec = stringSpec
              /\ node.op = "add" /\ l.typeSpec \in NumericTypeSpecs
                                 /\ r.typeSpec \in NumericTypeSpecs
                 => HasType(node) /\ node.typeSpec = Wider(l.typeSpec, r.typeSpec)

\* PRINT 1 + "a" has been visited: both operands have their types, the node
\* has none and the analysis has failed.
C20_Witness ==
    /\ analysis.at = "failed"
    /\ module.stmts =
         << PrintStmt(<< BinaryOpExpr("add",
                                      assign(One, [typeSpec |-> singleSpec]),
                                      assign(Text, [typeSpec |-> stringSpec])) >>) >>


-----------------------------------------------------------------------------
(* Variables under two spellings: assignments among x, X and y compiled and   *)
(* executed.                                                                   *)

NameSpellings == {"x", "X"}

NameAssignStmts ==
    { AssignStmt(VarRefExpr(t), v) :
        t \in NameSpellings \cup {"y"},
        v \in {LiteralExpr(1), LiteralExpr(2)}
              \cup { VarRefExpr(n) : n \in NameSpellings } }

NextNames ==
    \/ \E node \in NameAssignStmts : visitAssignStmt(node)
    \/ visitModule_endStmts
    \/ visitModule_return
    \/ executeModule({NoVars})
    \/ executeStep

InitNames == Start /\ budget = [stmts |-> MaxNameStmts, steps |-> MaxNameStmts]

SpecNames == InitNames /\ [][NextNames]_vars

\* The variables after the k-th executed statement.
EnvAfter(k) == IF k < Len(trace) THEN trace[k + 1].env ELSE localVars

\* The last statement before line p that assigns the variable called name,
\* whatever the case of the letters; 0 when there is none.
LastAssignTo(name, p) ==
    LET lines == { j \in 1 .. p - 1 :
                     toLowerCase(ast[j].targetExpr.name) = toLowerCase(name) }
    IN  IF lines = {} THEN 0 ELSE CHOOSE j \in lines : \A i \in lines : i <= j

\* C22: two references whose names differ only in letter case denote the same
\* variable: an executed assignment t = r, r a variable assigned before under
\* any spelling, stores in t the value the last such assignment stored.
C22_NamesCaseInsensitive ==
    phase \in {"exec", "halted"} =>
        \A k \in 1 .. Len(trace) :
            LET p == trace[k].pc
                j == LastAssignTo(ast[p].valueExpr.name, p)
            IN  (ast[p].valueExpr.type = "VarRef" /\ j # 0)
                  => lookup(EnvAfter(k), ast[p].targetExpr.name)
                       = lookup(EnvAfter(j), ast[j].targetExpr.name)

-----------------------------------------------------------------------------
(* Expressions compiled and executed: q = e and PRINT e, e an operator on the  *)
(* variables l and r, which the executor starts with.                          *)

ExprBinaryOps == {"intdiv", "add", "lte", "eq", "and", "or"}
ExprUnaryOps == {"neg", "not"}

RunExprs ==
    { BinaryOpExpr(op, VarRefExpr("l"), VarRefExpr("r")) : op \in ExprBinaryOps }
    \cup { UnaryOpExpr(op, VarRefExpr("l")) : op \in ExprUnaryOps }
    \cup { VarRefExpr("l"), LiteralExpr(1) }

ExprAssignStmts == { AssignStmt(VarRefExpr("q"), e) : e \in RunExprs }
ExprPrintStmts == { PrintStmt(<<e>>) : e \in RunExprs }

DividendValues == {-7, 0, 7}
DivisorValues == {-2, 0, 2}

ExprStartVars ==
    { [n \in {"l", "r"} |-> Num(IF n = "l" THEN a ELSE b)] :
        a \in DividendValues, b \in DivisorValues }

NextExpr ==
    \/ \E node \in ExprAssignStmts : visitAssignStmt(node)
    \/ \E node \in ExprPrintStmts : visitPrintStmt(node)
    \/ visitModule_endStmts
    \/ visitModule_return
    \/ executeModule(ExprStartVars)
    \/ executeStep

InitExpr == Start /\ budget = [stmts |-> MaxExprStmts, steps |-> MaxExprStmts]

SpecExpr == InitExpr /\ [][NextExpr]_vars

\* The expression of the statement q = e or PRINT e.
ExprOf(node) == IF node.type = "AssignStmt" THEN node.valueExpr ELSE node.args[1]

\* C23: an executed integer division l \ r with r = 0 ends in a RuntimeError
\* instead of a value, and with r not 0 its value is the floor of l / r.
C23_IntDivByZeroIsAnError ==
    \A k \in 1 .. Len(trace) :
        LET node == ast[trace[k].pc]
            e == ExprOf(node)
            l == trace[k].env["l"].v
            r == trace[k].env["r"].v
        IN  (e.type = "BinaryOp" /\ e.op = "intdiv")
              => IF r = 0 THEN trace[k].threw
                 ELSE /\ ~trace[k].threw
                      /\ node.type = "AssignStmt"
                           => lookup(EnvAfter(k), "q") = Num(floorDiv(l, r))

RECURSIVE AnalyzerForm(_)
\* The expression as the analyzer is given it: names are character lists and
\* a literal holds its value.
AnalyzerForm(e) ==
    CASE e.type = "Literal" -> LiteralExpr(Num(e.value))
      [] e.type = "VarRef" -> VarRefExpr(<<e.name>>)
      [] e.type = "BinaryOp" ->
            BinaryOpExpr(e.op, AnalyzerForm(e.leftExpr), AnalyzerForm(e.rightExpr))
      [] e.type = "UnaryOp" -> UnaryOpExpr(e.op, AnalyzerForm(e.rightExpr))

\* The analyzer's visit of the expression in a module without declarations.
Analyzed_(e) ==
    Analyzer_accept(AnalyzerForm(e),
                    [procs |-> <<>>, stmts |-> <<>>, localSymbols |-> <<>>,
                     globalSymbols |-> <<>>], 0)

\* C26: for a program the analyzer accepts, no executed PRINT throws 'Unknown
\* print arg': every value it hands to Runtime.print is a string or a number,
\* its relational comparisons, AND, OR and NOT included.
C26_PrintArgsAreStringsOrNumbers ==
    \A k \in 1 .. Len(trace) :
        LET node == ast[trace[k].pc] IN
        (node.type = "PrintStmt" /\ ~Analyzed_(node.args[1]).threw)
          => ~trace[k].threw

-----------------------------------------------------------------------------
(* The playground's run/stop button (src/qbjc-playground/src/run-fab.tsx) and  *)
(* the manager it calls. A render reads qbjcManager.isRunning and builds the   *)
(* click handler over the value read.                                          *)

compilerVars ==
    <<genVars, budget, pc, localVars, tempVars, trace, runtimeVars, analyzerVars>>

\* qbjcManager.run(): a run starts and isRunning is set.
QbjcManager_run ==
    /\ calls' = Append(calls, [fn |-> "run", inProgress |-> runs])
    /\ runs' = runs + 1
    /\ isRunning' = TRUE

\* qbjcManager.stop(): what runs is ended.
QbjcManager_stop ==
    /\ calls' = Append(calls, [fn |-> "stop", inProgress |-> runs])
    /\ runs' = 0
    /\ isRunning' = FALSE

\* RunFab's render: const isRunning = qbjcManager.isRunning, after the
\* observable has changed.
RunFab_render ==
    /\ rendered # isRunning
    /\ rendered' = isRunning
    /\ UNCHANGED <<isRunning, runs, calls, compilerVars>>

\* The onClick of the last render.
RunFab_onClick ==
    /\ Len(calls) < MaxClicks
    /\ IF rendered THEN QbjcManager_stop ELSE QbjcManager_run
    /\ UNCHANGED <<rendered, compilerVars>>

\* A started program comes to its end.
programEnds ==
    /\ runs > 0
    /\ runs' = runs - 1
    /\ isRunning' = (runs' > 0)
    /\ UNCHANGED <<rendered, calls, compilerVars>>

NextPlayground ==
    \/ RunFab_onClick
    \/ RunFab_render
    \/ programEnds

InitPlayground == Start /\ budget = [stmts |-> 0, steps |-> 0]

SpecPlayground == InitPlayground /\ [][NextPlayground]_vars

\* C30: the button never invokes qbjcManager.run() while a started run is in
\* progress: every run() it has called found no run under way.
C30_NoRunWhileRunning ==
    \A k \in 1 .. Len(calls) : calls[k].fn = "run" => calls[k].inProgress = 0
====
